---- MODULE Spec2Model ----
(***************************************************************************)
(* iconflow: the descriptor-to-table compiler (xtask gen) and the lookup   *)
(* code it emits.                                                          *)
(*                                                                         *)
(* Strings are sequences of one-character strings, so that splitting,      *)
(* case conversion and lexicographic ordering are computed as the code     *)
(* computes them.  Option<T> is a record [some, v].  Result<T> is a record *)
(* with an ok field and an err field naming the failure.                   *)
(***************************************************************************)
EXTENDS Integers, Sequences, FiniteSets, TLC

(***************************************************************************)
(* Characters                                                              *)
(***************************************************************************)
LowerChars ==
  <<"a", "b", "c", "d", "e", "f", "g", "h", "i", "j", "k", "l", "m",
    "n", "o", "p", "q", "r", "s", "t", "u", "v", "w", "x", "y", "z">>

UpperChars ==
  <<"A", "B", "C", "D", "E", "F", "G", "H", "I", "J", "K", "L", "M",
    "N", "O", "P", "Q", "R", "S", "T", "U", "V", "W", "X", "Y", "Z">>

DigitChars ==
  <<"0", "1", "2", "3", "4", "5", "6", "7", "8", "9">>

\* The other characters the model's strings use, in ascending byte order
\* before the digits, between the classes, and after the lower-case letters.
PunctBeforeDigits ==
  <<" ", "+", "-", ".", "/">>

PunctBeforeLower ==
  <<"\\", "_">>

\* Every character of the model in ascending byte order (the order of
\* str::cmp, which BTreeMap, BTreeSet and sort use).
ByteOrder ==
  PunctBeforeDigits \o DigitChars \o UpperChars \o PunctBeforeLower \o LowerChars

Range(s) ==
  { s[i] : i \in DOMAIN s }

IndexOf(s, c) ==
  CHOOSE i \in DOMAIN s : s[i] = c

is_ascii_lowercase(c) ==
  c \in Range(LowerChars)

is_ascii_uppercase(c) ==
  c \in Range(UpperChars)

is_ascii_alphabetic(c) ==
  is_ascii_lowercase(c) \/ is_ascii_uppercase(c)

is_ascii_digit(c) ==
  c \in Range(DigitChars)

to_ascii_uppercase(c) ==
  IF is_ascii_lowercase(c) THEN UpperChars[IndexOf(LowerChars, c)] ELSE c

to_ascii_lowercase(c) ==
  IF is_ascii_uppercase(c) THEN LowerChars[IndexOf(UpperChars, c)] ELSE c

str_to_ascii_lowercase(s) ==
  [i \in DOMAIN s |-> to_ascii_lowercase(s[i])]

\* char::is_whitespace, for the characters of the model
is_whitespace(c) ==
  c = " "

\* str::trim().is_empty()
trim_is_empty(s) ==
  \A i \in DOMAIN s : is_whitespace(s[i])

\* str::ends_with(c)
ends_with(s, c) ==
  Len(s) > 0 /\ s[Len(s)] = c

\* str::replace(from, to) for single characters
RECURSIVE replace(_, _, _)
replace(s, from, to) ==
  IF s = <<>> THEN <<>>
  ELSE <<IF Head(s) = from THEN to ELSE Head(s)>> \o replace(Tail(s), from, to)

\* Ordering of strings: byte-wise lexicographic, a proper prefix first.
RECURSIVE StrLess(_, _)
StrLess(a, b) ==
  IF b = <<>> THEN FALSE
  ELSE IF a = <<>> THEN TRUE
  ELSE IF Head(a) = Head(b) THEN StrLess(Tail(a), Tail(b))
  ELSE IndexOf(ByteOrder, Head(a)) < IndexOf(ByteOrder, Head(b))

\* str::split(sep): the segments between the separators; "" splits to [""].
RECURSIVE SplitFrom(_, _, _)
SplitFrom(s, sep, cur) ==
  IF s = <<>> THEN <<cur>>
  ELSE IF Head(s) = sep THEN <<cur>> \o SplitFrom(Tail(s), sep, <<>>)
  ELSE SplitFrom(Tail(s), sep, Append(cur, Head(s)))

split(s, sep) ==
  SplitFrom(s, sep, <<>>)

(***************************************************************************)
(* Option and Result                                                       *)
(***************************************************************************)
None ==
  [some |-> FALSE, v |-> <<>>]

Some(x) ==
  [some |-> TRUE, v |-> x]

NoCodepoint ==
  [some |-> FALSE, v |-> 0]

Ok(x) ==
  [ok |-> TRUE, err |-> "", v |-> x]

Err(kind) ==
  [ok |-> FALSE, err |-> kind, v |-> <<>>]

\* The ? operator: the error of result, or Then of its value.
AndThen(result, Then(_)) ==
  IF result.ok THEN Then(result.v) ELSE result

\* A sequence of results as one result: the first error, or all the values.
Collect(results) ==
  IF \E i \in DOMAIN results : ~results[i].ok
  THEN results[CHOOSE i \in DOMAIN results :
                 /\ ~results[i].ok
                 /\ \A j \in DOMAIN results : ~results[j].ok => i <= j]
  ELSE Ok([i \in DOMAIN results |-> results[i].v])

(***************************************************************************)
(* Identifier generator                                                    *)
(***************************************************************************)
RustKeywords ==
  { <<"a", "s">>,
    <<"b", "r", "e", "a", "k">>,
    <<"c", "o", "n", "s", "t">>,
    <<"c", "o", "n", "t", "i", "n", "u", "e">>,
    <<"c", "r", "a", "t", "e">>,
    <<"d", "y", "n">>,
    <<"e", "l", "s", "e">>,
    <<"e", "n", "u", "m">>,
    <<"e", "x", "t", "e", "r", "n">>,
    <<"f", "a", "l", "s", "e">>,
    <<"f", "n">>,
    <<"f", "o", "r">>,
    <<"i", "f">>,
    <<"i", "m", "p", "l">>,
    <<"i", "n">>,
    <<"l", "e", "t">>,
    <<"l", "o", "o", "p">>,
    <<"m", "a", "t", "c", "h">>,
    <<"m", "o", "d">>,
    <<"m", "o", "v", "e">>,
    <<"m", "u", "t">>,
    <<"p", "u", "b">>,
    <<"r", "e", "f">>,
    <<"r", "e", "t", "u", "r", "n">>,
    <<"s", "e", "l", "f">>,
    <<"s", "t", "a", "t", "i", "c">>,
    <<"s", "t", "r", "u", "c", "t">>,
    <<"s", "u", "p", "e", "r">>,
    <<"t", "r", "a", "i", "t">>,
    <<"t", "r", "u", "e">>,
    <<"t", "y", "p", "e">>,
    <<"u", "n", "i", "o", "n">>,
    <<"u", "n", "s", "a", "f", "e">>,
    <<"u", "s", "e">>,
    <<"w", "h", "e", "r", "e">>,
    <<"w", "h", "i", "l", "e">>,
    <<"a", "s", "y", "n", "c">>,
    <<"a", "w", "a", "i", "t">>,
    <<"t", "r", "y">>,
    <<"y", "i", "e", "l", "d">> }

is_rust_keyword(ident) ==
  str_to_ascii_lowercase(ident) \in RustKeywords

\* One segment of to_pascal_case: its first character upper-cased when it is
\* an ASCII letter, the rest unchanged.
PascalSegment(part) ==
  <<IF is_ascii_alphabetic(Head(part)) THEN to_ascii_uppercase(Head(part))
    ELSE Head(part)>> \o Tail(part)

RECURSIVE PascalJoin(_)
PascalJoin(parts) ==
  IF parts = <<>> THEN <<>>
  ELSE PascalSegment(Head(parts)) \o PascalJoin(Tail(parts))

\* The loop of to_pascal_case over the segments of the name
PascalOfParts(parts) ==
  IF \E i \in DOMAIN parts : parts[i] = <<>>
  THEN Err("EmptySegment")
  ELSE Ok(PascalJoin(parts))

to_pascal_case(name) ==
  PascalOfParts(split(name, "-"))

\* ident = format!("Icon{ident}") when ident starts with a digit
MarkLeadingDigit(ident) ==
  IF ident # <<>> /\ is_ascii_digit(Head(ident))
  THEN <<"I", "c", "o", "n">> \o ident
  ELSE ident

\* The identifier left as it is, keyword or not
KeepIdent(ident) ==
  ident

\* ident.push('_') when ident is a keyword
EscapeKeyword(ident) ==
  IF is_rust_keyword(ident) THEN Append(ident, "_") ELSE ident

normalize_icon_name(name) ==
  IF name = <<>> THEN Err("EmptyName")
  ELSE AndThen(to_pascal_case(name),
               LAMBDA pascal : Ok(EscapeKeyword(MarkLeadingDigit(pascal))))

pack_enum_ident(pack_id) ==
  AndThen(to_pascal_case(pack_id), LAMBDA pascal : Ok(EscapeKeyword(pascal)))

\* What to_upper_snake pushes for the character ch at position idx (from 1)
\* after the text out.
UpperSnakePush(out, idx, ch) ==
  IF is_ascii_uppercase(ch)
  THEN (IF idx # 1 THEN Append(out, "_") ELSE out) \o <<ch>>
  ELSE IF is_ascii_lowercase(ch) THEN Append(out, to_ascii_uppercase(ch))
  ELSE IF is_ascii_digit(ch)
  THEN (IF idx # 1 /\ ~ends_with(out, "_") THEN Append(out, "_") ELSE out) \o <<ch>>
  ELSE IF ~ends_with(out, "_") THEN Append(out, "_") ELSE out

\* The loop of to_upper_snake over the characters from position idx on
RECURSIVE UpperSnakeFrom(_, _, _)
UpperSnakeFrom(ident, idx, out) ==
  IF idx > Len(ident) THEN Ok(out)
  ELSE IF is_ascii_alphabetic(ident[idx]) \/ is_ascii_digit(ident[idx]) \/ ident[idx] = "_"
  THEN UpperSnakeFrom(ident, idx + 1, UpperSnakePush(out, idx, ident[idx]))
  ELSE Err("UnsupportedCharacter")

to_upper_snake(ident) ==
  IF ident = <<>> THEN Err("EmptyIdentifier")
  ELSE UpperSnakeFrom(ident, 1, <<>>)

icon_codepoints_const_ident(ident) ==
  AndThen(to_upper_snake(ident),
          LAMBDA upper : Ok(<<"I", "C", "O", "N", "_">> \o upper
                              \o <<"_", "C", "O", "D", "E", "P", "O", "I", "N", "T", "S">>))

icon_available_const_ident(ident) ==
  AndThen(to_upper_snake(ident),
          LAMBDA upper : Ok(<<"I", "C", "O", "N", "_">> \o upper
                              \o <<"_", "A", "V", "A", "I", "L", "A", "B", "L", "E">>))

(***************************************************************************)
(* Sorting (slice::sort and slice::sort_by are stable)                     *)
(***************************************************************************)
\* Insert index i into the index list `sorted`, after every index whose key
\* is not greater than keys[i].
RECURSIVE InsertIndex(_, _, _)
InsertIndex(sorted, i, keys) ==
  IF sorted = <<>> THEN <<i>>
  ELSE IF StrLess(keys[i], keys[Head(sorted)]) THEN <<i>> \o sorted
  ELSE <<Head(sorted)>> \o InsertIndex(Tail(sorted), i, keys)

RECURSIVE StableOrderUpTo(_, _)
StableOrderUpTo(keys, n) ==
  IF n = 0 THEN <<>>
  ELSE InsertIndex(StableOrderUpTo(keys, n - 1), n, keys)

\* The indices of keys in stable ascending order of the keys.
StableOrder(keys) ==
  StableOrderUpTo(keys, Len(keys))

\* s rearranged by the index list order
Permute(s, order) ==
  [i \in DOMAIN s |-> s[order[i]]]

\* s sorted (stably) by the string keys[i] of each s[i].
SortedByKey(s, keys) ==
  Permute(s, StableOrder(keys))

\* The least string of a non-empty set
Least(S) ==
  CHOOSE x \in S : \A y \in S \ {x} : StrLess(x, y)

\* S without x, in ascending order, after x
RECURSIVE SetToSortedSeq(_)
SortedFrom(x, S) ==
  <<x>> \o SetToSortedSeq(S \ {x})

\* The elements of a set of strings in ascending order (BTreeSet / BTreeMap
\* key iteration).
SetToSortedSeq(S) ==
  IF S = {} THEN <<>> ELSE SortedFrom(Least(S), S)

(***************************************************************************)
(* Normalizer / validator                                                  *)
(*                                                                         *)
(* Variant  == [id, style, size, family, ttf_asset_path, feature]          *)
(* Icon     == [name, codepoint, overrides, availability]                  *)
(*             overrides is a function from variant ids to codepoints      *)
(* PackMap  == [pack_id, variants, icons]                                  *)
(***************************************************************************)
VariantKey(style, size) ==
  [style |-> style, size |-> size]

KeyOf(variant) ==
  VariantKey(variant.style, variant.size)

VariantInfo(variant) ==
  [id |-> variant.id, key |-> KeyOf(variant), family |-> variant.family,
   ttf_asset_path |-> variant.ttf_asset_path, feature |-> variant.feature]

\* The loop over the variants without the two duplicate checks.
VariantsUnchecked(variants, idx, seen_variant_ids, seen_variant_keys, variants_info) ==
  IF \E i \in DOMAIN variants :
       variants[i].feature.some /\ trim_is_empty(variants[i].feature.v)
  THEN Err("EmptyFeatureName")
  ELSE Ok([i \in DOMAIN variants |-> VariantInfo(variants[i])])

\* The loop over the sorted variants (duplicate id, duplicate key, blank
\* feature name, in that order for each variant).
RECURSIVE VariantLoop(_, _, _, _, _)
VariantLoop(variants, idx, seen_variant_ids, seen_variant_keys, variants_info) ==
  IF idx > Len(variants) THEN Ok(variants_info)
  ELSE IF variants[idx].id \in seen_variant_ids THEN Err("DuplicateVariantId")
  ELSE IF KeyOf(variants[idx]) \in seen_variant_keys THEN Err("DuplicateVariantKey")
  ELSE IF variants[idx].feature.some /\ trim_is_empty(variants[idx].feature.v)
  THEN Err("EmptyFeatureName")
  ELSE VariantLoop(variants, idx + 1,
                   seen_variant_ids \cup {variants[idx].id},
                   seen_variant_keys \cup {KeyOf(variants[idx])},
                   Append(variants_info, VariantInfo(variants[idx])))

\* The match on icon.availability without the check for an empty list
AvailabilityMayBeEmpty(icon, variant_ids) ==
  IF icon.availability.some
  THEN IF \E i, j \in DOMAIN icon.availability.v :
            i < j /\ icon.availability.v[i] = icon.availability.v[j]
       THEN Err("DuplicateAvailabilityEntry")
       ELSE Ok(icon.availability.v)
  ELSE IF icon.codepoint.some THEN Ok(variant_ids)
  ELSE IF DOMAIN icon.overrides # {} THEN Ok(SetToSortedSeq(DOMAIN icon.overrides))
  ELSE Err("NoCodepointOrOverrides")

\* The match on icon.availability without the check for repeated entries
AvailabilityMayRepeat(icon, variant_ids) ==
  IF icon.availability.some
  THEN IF icon.availability.v = <<>> THEN Err("EmptyAvailability")
       ELSE Ok(icon.availability.v)
  ELSE IF icon.codepoint.some THEN Ok(variant_ids)
  ELSE IF DOMAIN icon.overrides # {} THEN Ok(SetToSortedSeq(DOMAIN icon.overrides))
  ELSE Err("NoCodepointOrOverrides")

\* The match on icon.availability with the override keys taking precedence
\* over the default codepoint when availability is omitted.
AvailabilityOverridesFirst(icon, variant_ids) ==
  IF icon.availability.some
  THEN IF icon.availability.v = <<>> THEN Err("EmptyAvailability")
       ELSE IF \E i, j \in DOMAIN icon.availability.v :
                  i < j /\ icon.availability.v[i] = icon.availability.v[j]
       THEN Err("DuplicateAvailabilityEntry")
       ELSE Ok(icon.availability.v)
  ELSE IF DOMAIN icon.overrides # {} THEN Ok(SetToSortedSeq(DOMAIN icon.overrides))
  ELSE IF icon.codepoint.some THEN Ok(variant_ids)
  ELSE Err("NoCodepointOrOverrides")

\* The match on icon.availability: the availability of an icon as a list of
\* variant ids, or the error.
IconAvailability(icon, variant_ids) ==
  IF icon.availability.some
  THEN IF icon.availability.v = <<>> THEN Err("EmptyAvailability")
       ELSE IF \E i, j \in DOMAIN icon.availability.v :
                  i < j /\ icon.availability.v[i] = icon.availability.v[j]
       THEN Err("DuplicateAvailabilityEntry")
       ELSE Ok(icon.availability.v)
  ELSE IF icon.codepoint.some THEN Ok(variant_ids)
  ELSE IF DOMAIN icon.overrides # {} THEN Ok(SetToSortedSeq(DOMAIN icon.overrides))
  ELSE Err("NoCodepointOrOverrides")

\* A codepoint lookup that ignores the overrides
DefaultCodepoint(icon, variant_id) ==
  icon.codepoint

\* icon.overrides.get(variant_id), else icon.codepoint
CodepointFor(icon, variant_id) ==
  IF variant_id \in DOMAIN icon.overrides THEN Some(icon.overrides[variant_id])
  ELSE icon.codepoint

\* The (key, codepoint) pairs of the variant ids in kept
PairsOf(icon, kept, variant_key_by_id) ==
  [i \in DOMAIN kept |->
     [key |-> variant_key_by_id[kept[i]], codepoint |-> CodepointFor(icon, kept[i]).v]]

\* The codepoint loop skipping, instead of failing on, an available variant
\* the icon has no codepoint for.
SkipMissingCodepoints(icon, variant_ids, idx, availability_set, variant_key_by_id, codepoints) ==
  Ok(PairsOf(icon,
             SelectSeq(variant_ids,
                       LAMBDA id : id \in availability_set /\ CodepointFor(icon, id).some),
             variant_key_by_id))

\* The loop over the declared variant ids that collects (key, codepoint) for
\* the ids in the availability set.
RECURSIVE CodepointLoop(_, _, _, _, _, _)
CodepointLoop(icon, variant_ids, idx, availability_set, variant_key_by_id, codepoints) ==
  IF idx > Len(variant_ids) THEN Ok(codepoints)
  ELSE IF variant_ids[idx] \notin availability_set
  THEN CodepointLoop(icon, variant_ids, idx + 1, availability_set,
                     variant_key_by_id, codepoints)
  ELSE IF ~CodepointFor(icon, variant_ids[idx]).some
  THEN Err("MissingCodepointForVariant")
  ELSE IF variant_ids[idx] \notin DOMAIN variant_key_by_id
  THEN Err("UnknownVariantReferenced")
  ELSE CodepointLoop(icon, variant_ids, idx + 1, availability_set, variant_key_by_id,
                     Append(codepoints,
                            [key |-> variant_key_by_id[variant_ids[idx]],
                             codepoint |-> CodepointFor(icon, variant_ids[idx]).v]))

\* The checks of one icon without the two checks for undeclared variant ids.
IconCodepointsUnchecked(icon, variant_ids, variant_key_by_id) ==
  IF icon.availability.some
     /\ \E id \in DOMAIN icon.overrides : id \notin Range(icon.availability.v)
  THEN Err("OverrideNotInAvailability")
  ELSE AndThen(IconAvailability(icon, variant_ids), LAMBDA availability :
         AndThen(CodepointLoop(icon, variant_ids, 1, Range(availability),
                               variant_key_by_id, <<>>),
                 LAMBDA codepoints :
                   IF codepoints = <<>> THEN Err("NoAvailableVariants")
                   ELSE Ok(codepoints)))

\* The checks of one icon after its name and identifier were accepted.
IconCodepoints(icon, variant_ids, variant_key_by_id) ==
  IF \E id \in DOMAIN icon.overrides : id \notin Range(variant_ids)
  THEN Err("OverrideUnknownVariant")
  ELSE IF icon.availability.some
          /\ \E i \in DOMAIN icon.availability.v :
                icon.availability.v[i] \notin Range(variant_ids)
  THEN Err("AvailabilityUnknownVariant")
  ELSE IF icon.availability.some
          /\ \E id \in DOMAIN icon.overrides : id \notin Range(icon.availability.v)
  THEN Err("OverrideNotInAvailability")
  ELSE AndThen(IconAvailability(icon, variant_ids), LAMBDA availability :
         AndThen(CodepointLoop(icon, variant_ids, 1, Range(availability),
                               variant_key_by_id, <<>>),
                 LAMBDA codepoints :
                   IF codepoints = <<>> THEN Err("NoAvailableVariants")
                   ELSE Ok(codepoints)))

\* The icons checked one by one, without the sets of names and identifiers
\* already seen.
IconsUnchecked(icons, idx, variant_ids, key_by_id, seen_names, seen_idents, icons_info) ==
  Collect([i \in DOMAIN icons |->
    AndThen(normalize_icon_name(icons[i].name), LAMBDA ident :
      AndThen(IconCodepoints(icons[i], variant_ids, key_by_id), LAMBDA codepoints :
        Ok([name |-> icons[i].name, ident |-> ident, codepoints |-> codepoints])))])

\* The loop over the icons in descriptor order.
RECURSIVE IconLoop(_, _, _, _, _, _, _)
IconLoop(icons, idx, variant_ids, key_by_id, seen_names, seen_idents, icons_info) ==
  IF idx > Len(icons) THEN Ok(icons_info)
  ELSE IF icons[idx].name \in seen_names THEN Err("DuplicateIconName")
  ELSE AndThen(normalize_icon_name(icons[idx].name), LAMBDA ident :
         IF ident \in seen_idents THEN Err("IdentifierCollision")
         ELSE AndThen(IconCodepoints(icons[idx], variant_ids, key_by_id),
                LAMBDA codepoints :
                  IconLoop(icons, idx + 1, variant_ids, key_by_id,
                           seen_names \cup {icons[idx].name},
                           seen_idents \cup {ident},
                           Append(icons_info,
                                  [name |-> icons[idx].name, ident |-> ident,
                                   codepoints |-> codepoints]))))

\* The variants left in the order of the descriptor
DeclaredOrder(variants) ==
  variants

\* variants.sort_by(|a, b| a.id.cmp(&b.id))
SortVariantsById(variants) ==
  SortedByKey(variants, [i \in DOMAIN variants |-> variants[i].id])

\* icons_info.sort_by(|a, b| a.name.cmp(&b.name))
SortIconsByName(icons_info) ==
  SortedByKey(icons_info, [i \in DOMAIN icons_info |-> icons_info[i].name])

\* variant_ids, in the order of variants_info
VariantIdsOf(variants_info) ==
  [i \in DOMAIN variants_info |-> variants_info[i].id]

\* variant_key_by_id
VariantKeyById(variants_info) ==
  [id \in Range(VariantIdsOf(variants_info)) |->
     (CHOOSE v \in Range(variants_info) : v.id = id).key]

normalize_pack(pack) ==
  AndThen(VariantLoop(SortVariantsById(pack.variants), 1, {}, {}, <<>>),
    LAMBDA variants_info :
      AndThen(IconLoop(pack.icons, 1, VariantIdsOf(variants_info),
                       VariantKeyById(variants_info), {}, {}, <<>>),
        LAMBDA icons_info :
          Ok([pack_id |-> pack.pack_id,
              variants |-> variants_info,
              icons |-> SortIconsByName(icons_info)])))

(***************************************************************************)
(* Font asset deduplicator                                                 *)
(***************************************************************************)
\* The components of a path that Path::components keeps: empty and "."
\* components are skipped.
Components(path) ==
  SelectSeq(split(path, "/"), LAMBDA c : c # <<>> /\ c # <<".">>)

\* The position of the last "." of a file name, 0 when it has none
LastDot(name) ==
  IF \A i \in DOMAIN name : name[i] # "." THEN 0
  ELSE CHOOSE i \in DOMAIN name :
         /\ name[i] = "."
         /\ \A j \in DOMAIN name : name[j] = "." => j <= i

\* The file name without its extension; a name whose only "." is its first
\* character has no extension.
StemAt(name, last) ==
  IF last <= 1 THEN Some(name) ELSE Some(SubSeq(name, 1, last - 1))

\* Path::file_stem of the components: a path ending in ".." has no file name.
StemOf(comps) ==
  IF comps = <<>> \/ comps[Len(comps)] = <<".", ".">> THEN None
  ELSE StemAt(comps[Len(comps)], LastDot(comps[Len(comps)]))

file_stem(path) ==
  StemOf(Components(path))

\* to_upper_snake(&stem.replace('-', "_")) of the file stem, or the error of
\* a path without one
StemIdent(stem) ==
  IF ~stem.some THEN Err("InvalidAssetPath")
  ELSE to_upper_snake(replace(stem.v, "-", "_"))

font_asset_const_ident_from_path(pack_id, ttf_asset_path) ==
  AndThen(StemIdent(file_stem(ttf_asset_path)), LAMBDA stem_ident :
    AndThen(to_upper_snake(pack_id), LAMBDA pack_ident :
      Ok(<<"F", "O", "N", "T", "_", "A", "S", "S", "E", "T", "_">>
           \o pack_ident \o <<"_">> \o stem_ident)))

\* variant.ttf_asset_path.replace('\\', "/")
AssetPathOf(variant) ==
  replace(variant.ttf_asset_path, "\\", "/")

\* One step of the first loop that lets the family of the later variant
\* replace the recorded one.
LastFamilyWins(families, path, family) ==
  Ok({ f \in families : f.path # path } \cup {[path |-> path, family |-> family]})

\* One step of the first loop of collect_font_assets for a variant whose
\* asset path is path: families with the family of the path recorded, or
\* the conflict.
RecordFamily(families, path, family) ==
  IF \E f \in families : f.path = path /\ f.family # family
  THEN Err("ConflictingFamily")
  ELSE Ok(families \cup {[path |-> path, family |-> family]})

\* The first loop keeping, for each path, the family of the first variant
\* that names it, without comparing the others.
FirstFamilyKept(variants, idx, families) ==
  Ok({ [path |-> AssetPathOf(variants[i]), family |-> variants[i].family] :
         i \in { k \in DOMAIN variants :
                   \A j \in 1..k - 1 : AssetPathOf(variants[j]) # AssetPathOf(variants[k]) } })

\* The first loop of collect_font_assets: the family recorded for each path,
\* or the conflict.  families is a set of [path, family] with one entry per
\* path.
RECURSIVE AssetFamilies(_, _, _)
AssetFamilies(variants, idx, families) ==
  IF idx > Len(variants) THEN Ok(families)
  ELSE AndThen(RecordFamily(families, AssetPathOf(variants[idx]), variants[idx].family),
               LAMBDA recorded : AssetFamilies(variants, idx + 1, recorded))

\* Some feature of the set, a named one when there is one
AnyFeature(feature_set) ==
  CHOOSE f \in feature_set : f.some \/ \A g \in feature_set : ~g.some

\* The single element of a set of one feature value, None for any other set
SingleFeature(feature_set) ==
  IF Cardinality(feature_set) = 1 THEN CHOOSE f \in feature_set : TRUE
  ELSE None

\* The feature gate of the asset at path: the single feature value of its
\* variants, or no gate when they carry more than one value.
AssetFeature(variants, path) ==
  SingleFeature({ variants[i].feature :
                    i \in { j \in DOMAIN variants : AssetPathOf(variants[j]) = path } })

\* The second loop of collect_font_assets, over the paths in ascending order.
RECURSIVE AssetInfos(_, _, _, _)
AssetInfos(pack, families, paths, assets) ==
  IF paths = <<>> THEN Ok(assets)
  ELSE AndThen(font_asset_const_ident_from_path(pack.pack_id, Head(paths)),
         LAMBDA const_ident :
           AssetInfos(pack, families, Tail(paths),
             Append(assets,
                    [const_ident |-> const_ident,
                     family |-> (CHOOSE f \in families : f.path = Head(paths)).family,
                     ttf_asset_path |-> Head(paths),
                     feature |-> AssetFeature(pack.variants, Head(paths))])))

\* The index of the last variant with the given key: a later insert into
\* variant_feature_by_key replaces an earlier one.
LastWithKey(variants, key) ==
  CHOOSE i \in DOMAIN variants :
    /\ variants[i].key = key
    /\ \A j \in DOMAIN variants : variants[j].key = key => j <= i

VariantFeatureByKey(variants) ==
  [key \in { variants[i].key : i \in DOMAIN variants } |->
     variants[LastWithKey(variants, key)].feature]

\* collect_font_assets: the assets (asset_const_by_path is their
\* ttf_asset_path -> const_ident) and variant_feature_by_key.
collect_font_assets(pack) ==
  AndThen(AssetFamilies(pack.variants, 1, {}), LAMBDA families :
    AndThen(AssetInfos(pack, families,
                       SetToSortedSeq({ f.path : f \in families }), <<>>),
      LAMBDA assets :
        Ok([assets |-> assets,
            variant_feature_by_key |-> VariantFeatureByKey(pack.variants)])))

asset_const_by_path(assets, path) ==
  IF \E i \in DOMAIN assets : assets[i].ttf_asset_path = path
  THEN Ok((CHOOSE a \in Range(assets) : a.ttf_asset_path = path).const_ident)
  ELSE Err("MissingAssetConst")

(***************************************************************************)
(* Emitter                                                                 *)
(*                                                                         *)
(* An artifact is the record of the tables its text spells out, entry by   *)
(* entry and in order; gate is the #[cfg(feature = ...)] line in front of  *)
(* an entry (None when the entry has none).                                *)
(***************************************************************************)
\* Icon table entries emitted without a feature gate
NoGate(variant_feature_by_key, key) ==
  None

\* variant_feature_by_key.get(key).and_then(|f| f.as_deref())
KeyGate(variant_feature_by_key, key) ==
  IF key \in DOMAIN variant_feature_by_key THEN variant_feature_by_key[key] ELSE None

\* VARIANT_ASSETS entries emitted without the feature gate of their variant
VariantAssetsUngated(pack, assets) ==
  Collect([i \in DOMAIN pack.variants |->
    AndThen(asset_const_by_path(assets, AssetPathOf(pack.variants[i])),
      LAMBDA const_ident :
        Ok([gate |-> None, key |-> pack.variants[i].key, asset |-> const_ident]))])

\* The VARIANT_ASSETS entries
VariantAssets(pack, assets) ==
  Collect([i \in DOMAIN pack.variants |->
    AndThen(asset_const_by_path(assets, AssetPathOf(pack.variants[i])),
      LAMBDA const_ident :
        Ok([gate |-> pack.variants[i].feature,
            key |-> pack.variants[i].key,
            asset |-> const_ident]))])

\* The ICON_<NAME>_CODEPOINTS const items
CodepointConsts(pack, by_key) ==
  Collect([i \in DOMAIN pack.icons |->
    AndThen(icon_codepoints_const_ident(pack.icons[i].ident), LAMBDA const_name :
      Ok([name |-> const_name,
          entries |-> [k \in DOMAIN pack.icons[i].codepoints |->
             [gate |-> KeyGate(by_key, pack.icons[i].codepoints[k].key),
              key |-> pack.icons[i].codepoints[k].key,
              codepoint |-> pack.icons[i].codepoints[k].codepoint]]]))])

\* AVAILABLE const items that list the key of every variant of the pack,
\* whatever the icon
EveryVariantAvailable(pack, by_key) ==
  Collect([i \in DOMAIN pack.icons |->
    AndThen(icon_available_const_ident(pack.icons[i].ident), LAMBDA const_name :
      Ok([name |-> const_name,
          entries |-> [k \in DOMAIN pack.variants |->
             [gate |-> pack.variants[k].feature, key |-> pack.variants[k].key]]]))])

\* The ICON_<NAME>_AVAILABLE const items
AvailableConsts(pack, by_key) ==
  Collect([i \in DOMAIN pack.icons |->
    AndThen(icon_available_const_ident(pack.icons[i].ident), LAMBDA const_name :
      Ok([name |-> const_name,
          entries |-> [k \in DOMAIN pack.icons[i].codepoints |->
             [gate |-> KeyGate(by_key, pack.icons[i].codepoints[k].key),
              key |-> pack.icons[i].codepoints[k].key]]]))])

\* The text of a pack module, from the tables computed for it
PackModule(pack, assets, variant_assets, codepoint_consts, available_consts) ==
  [kind |-> "pack",
   PACK_ID |-> pack.pack_id,
   font_consts |-> [i \in DOMAIN assets |->
      [gate |-> assets[i].feature, name |-> assets[i].const_ident,
       family |-> assets[i].family,
       ttf_asset_path |-> assets[i].ttf_asset_path]],
   FONT_ASSETS |-> [i \in DOMAIN assets |->
      [gate |-> assets[i].feature, asset |-> assets[i].const_ident]],
   VARIANT_ASSETS |-> variant_assets,
   Icon |-> [i \in DOMAIN pack.icons |->
      [ident |-> pack.icons[i].ident, name |-> pack.icons[i].name]],
   ICON_NAMES |-> [i \in DOMAIN pack.icons |-> pack.icons[i].name],
   VARIANTS |-> [i \in DOMAIN pack.variants |->
      [gate |-> pack.variants[i].feature, key |-> pack.variants[i].key,
       family |-> pack.variants[i].family]],
   codepoint_consts |-> codepoint_consts,
   available_consts |-> available_consts,
   ICON_CODEPOINTS |-> [i \in DOMAIN pack.icons |->
      [name |-> pack.icons[i].name, codepoints |-> codepoint_consts[i].name]],
   ICON_AVAILABILITY |-> [i \in DOMAIN pack.icons |->
      [name |-> pack.icons[i].name, available |-> available_consts[i].name]]]

render_pack(pack) ==
  AndThen(collect_font_assets(pack), LAMBDA collected :
    AndThen(VariantAssets(pack, collected.assets), LAMBDA variant_assets :
      AndThen(CodepointConsts(pack, collected.variant_feature_by_key),
        LAMBDA codepoint_consts :
          AndThen(AvailableConsts(pack, collected.variant_feature_by_key),
            LAMBDA available_consts :
              Ok(PackModule(pack, collected.assets, variant_assets,
                            codepoint_consts, available_consts))))))

\* The concatenation of a sequence of sequences.
RECURSIVE Flatten(_)
Flatten(seqs) ==
  IF seqs = <<>> THEN <<>> ELSE Head(seqs) \o Flatten(Tail(seqs))

\* The Pack enum: one variant per pack
PackIdents(packs) ==
  Collect([i \in DOMAIN packs |-> pack_enum_ident(packs[i].pack_id)])

\* The font table of the module index: the assets of every pack
PackFonts(packs) ==
  Collect([i \in DOMAIN packs |->
    AndThen(collect_font_assets(packs[i]), LAMBDA collected :
      Ok([k \in DOMAIN collected.assets |->
            [pack |-> packs[i].pack_id,
             gate |-> collected.assets[k].feature,
             asset |-> collected.assets[k].const_ident]]))])

render_mod(packs) ==
  AndThen(PackIdents(packs), LAMBDA idents :
    AndThen(PackFonts(packs), LAMBDA fonts :
      Ok([kind |-> "mod",
          Pack |-> [i \in DOMAIN packs |->
             [pack |-> packs[i].pack_id, ident |-> idents[i]]],
          fonts |-> Flatten(fonts)])))

(***************************************************************************)
(* The emitted lookup code, compiled under a set of enabled features       *)
(***************************************************************************)
Included(gate, features) ==
  ~gate.some \/ gate.v \in features

\* The entries of a table that the build keeps.
Built(table, features) ==
  SelectSeq(table, LAMBDA e : Included(e.gate, features))

\* Iterator::find on a sequence: the first element satisfying Test.
Find(s, Test(_)) ==
  IF \E i \in DOMAIN s : Test(s[i])
  THEN Some(s[CHOOSE i \in DOMAIN s :
                /\ Test(s[i])
                /\ \A j \in DOMAIN s : Test(s[j]) => i <= j])
  ELSE None

\* Option::map
MapSome(opt, none, Then(_)) ==
  IF opt.some THEN Some(Then(opt.v)) ELSE none

\* Option::and_then
AndThenSome(opt, none, Then(_)) ==
  IF opt.some THEN Then(opt.v) ELSE none

\* The const item of the given name.
ConstNamed(consts, name) ==
  CHOOSE c \in Range(consts) : c.name = name

\* The name of each item of a sequence
NamesOf(items) ==
  [i \in DOMAIN items |-> items[i].name]

NoDuplicates(s) ==
  \A i, j \in DOMAIN s : i # j => s[i] # s[j]

\* rustc accepts the pack module whose kept font consts are font_names: no
\* two const items of one name, no two enum variants of one name, and every
\* asset a kept VARIANT_ASSETS or FONT_ASSETS entry names is itself kept.
CompilesWith(module, features, font_names) ==
  /\ NoDuplicates(font_names \o NamesOf(module.codepoint_consts)
                    \o NamesOf(module.available_consts))
  /\ NoDuplicates([i \in DOMAIN module.Icon |-> module.Icon[i].ident])
  /\ \A e \in Range(Built(module.VARIANT_ASSETS, features)) : e.asset \in Range(font_names)
  /\ \A e \in Range(Built(module.FONT_ASSETS, features)) : e.asset \in Range(font_names)

Compiles(module, features) ==
  CompilesWith(module, features, NamesOf(Built(module.font_consts, features)))

variant_info(module, features, style, size) ==
  Find(Built(module.VARIANTS, features), LAMBDA variant : variant.key = VariantKey(style, size))

icon_codepoint(module, features, name, key) ==
  AndThenSome(Find(module.ICON_CODEPOINTS, LAMBDA e : e.name = name), NoCodepoint,
    LAMBDA entry :
      MapSome(Find(Built(ConstNamed(module.codepoint_consts, entry.codepoints).entries,
                         features),
                   LAMBDA e : e.key = key),
              NoCodepoint, LAMBDA hit : hit.codepoint))

\* The key of each entry of an AVAILABLE const that the build keeps
KeysOf(entries) ==
  [i \in DOMAIN entries |-> entries[i].key]

icon_available(module, features, name) ==
  MapSome(Find(module.ICON_AVAILABILITY, LAMBDA e : e.name = name), None,
    LAMBDA entry :
      KeysOf(Built(ConstNamed(module.available_consts, entry.available).entries,
                   features)))

\* A resolve_icon that looks for the variant before it looks for the name
VariantCheckFirst(pack, name, style, size, available, family, codepoint) ==
  IF ~family.some
  THEN [kind |-> "VariantUnavailable", pack |-> pack, name |-> name,
        requested |-> VariantKey(style, size),
        available |-> IF available.some THEN available.v ELSE <<>>]
  ELSE IF ~available.some THEN [kind |-> "IconNotFound", pack |-> pack, name |-> name]
  ELSE IF VariantKey(style, size) \notin Range(available.v)
  THEN [kind |-> "VariantUnavailable", pack |-> pack, name |-> name,
        requested |-> VariantKey(style, size), available |-> available.v]
  ELSE IF ~codepoint.some THEN [kind |-> "Panic", message |-> "codepoint"]
  ELSE [kind |-> "Ok", family |-> family.v, codepoint |-> codepoint.v]

resolve_icon(pack, name, style, size, available, family, codepoint) ==
  IF ~available.some THEN [kind |-> "IconNotFound", pack |-> pack, name |-> name]
  ELSE IF VariantKey(style, size) \notin Range(available.v)
  THEN [kind |-> "VariantUnavailable", pack |-> pack, name |-> name,
        requested |-> VariantKey(style, size), available |-> available.v]
  ELSE IF ~family.some THEN [kind |-> "Panic", message |-> "family"]
  ELSE IF ~codepoint.some THEN [kind |-> "Panic", message |-> "codepoint"]
  ELSE [kind |-> "Ok", family |-> family.v, codepoint |-> codepoint.v]

\* generated::try_icon for the pack whose module is given (its Pack value
\* exists only in a build with the pack's own feature enabled).
try_icon(module, features, name, style, size) ==
  resolve_icon(module.PACK_ID, name, style, size,
               icon_available(module, features, name),
               MapSome(variant_info(module, features, style, size), None,
                       LAMBDA info : info.family),
               icon_codepoint(module, features, name, VariantKey(style, size)))

(***************************************************************************)
(* Bounds and input pools                                                  *)
(***************************************************************************)
MaxVariants == 2

MaxIcons == 1

\* The sequences over S of length at most n.
\* The sequences `shorter` and those of length n - 1 among them with one more
\* element of S.
Extended(shorter, S, n) ==
  shorter \cup { Append(s, x) : s \in { t \in shorter : Len(t) = n - 1 }, x \in S }

RECURSIVE SeqsUpTo(_, _)
SeqsUpTo(S, n) ==
  IF n = 0 THEN {<<>>} ELSE Extended(SeqsUpTo(S, n - 1), S, n)

SizeRegular ==
  [tok |-> "Regular", px |-> 0]

SizeCustom(px) ==
  [tok |-> "Custom", px |-> px]

IdA ==
  <<"a">>

IdB ==
  <<"b">>

FeatureX ==
  <<"x">>

\* style, size, family and font file of the variants of the pool
VariantShapes ==
  { [style |-> "Regular", size |-> SizeRegular, family |-> <<"D", "R">>,
     ttf_asset_path |-> <<"d", "-", "r", ".", "t", "t", "f">>],
    [style |-> "Filled", size |-> SizeCustom(20), family |-> <<"D", "F">>,
     ttf_asset_path |-> <<"d", "-", "f", ".", "t", "t", "f">>] }

VariantPool ==
  { [id |-> id, style |-> sh.style, size |-> sh.size, family |-> sh.family,
     ttf_asset_path |-> sh.ttf_asset_path, feature |-> feature] :
      id \in {IdA, IdB}, sh \in VariantShapes, feature \in {None, Some(FeatureX)} }

IconNames ==
  { <<"t">>, <<"u">> }

\* codepoint, overrides and availability of the icons of the pool
IconBodies ==
  { [codepoint |-> Some(1), overrides |-> <<>>, availability |-> None],
    [codepoint |-> Some(1), overrides |-> [id \in {IdB} |-> 2], availability |-> None],
    [codepoint |-> NoCodepoint, overrides |-> [id \in {IdA} |-> 3], availability |-> None],
    [codepoint |-> Some(1), overrides |-> <<>>, availability |-> Some(<<IdB, IdA>>)] }

IconPool ==
  { [name |-> name, codepoint |-> body.codepoint, overrides |-> body.overrides,
     availability |-> body.availability] : name \in IconNames, body \in IconBodies }

DemoPackId ==
  <<"d", "e", "m", "o">>

RawPacks ==
  { [pack_id |-> DemoPackId, variants |-> variants, icons |-> icons] :
      variants \in SeqsUpTo(VariantPool, MaxVariants),
      icons \in SeqsUpTo(IconPool, MaxIcons) }

\* What a caller may ask for: the names of the pool and one more, and the
\* styles and sizes of the pool in every combination.
QueryNames ==
  IconNames \cup { <<"z">> }

QueryStyles ==
  { sh.style : sh \in VariantShapes }

QuerySizes ==
  { sh.size : sh \in VariantShapes }

FeatureSets ==
  SUBSET {FeatureX}

(***************************************************************************)
(* Sync checker and the generation run                                     *)
(***************************************************************************)
\* A file of the generated directory: absent, unreadable (read_to_string
\* fails with an error other than NotFound) or holding a text.
Absent ==
  [state |-> "absent"]

Unreadable ==
  [state |-> "unreadable"]

FileWith(content) ==
  [state |-> "file", content |-> content]

\* The formatter is a function of its input.
rustfmt(code) ==
  [formatted |-> code]

\* A text no run renders, and what a failed fs::write may leave behind.
StaleText ==
  [formatted |-> [kind |-> "stale"]]

PartialText ==
  [formatted |-> [kind |-> "partial"]]

Running ==
  [kind |-> "Running", path |-> <<>>, err |-> ""]

Finished(kind, path, err) ==
  [kind |-> kind, path |-> path, err |-> err]

\* What the file system lets a write do: succeed, fail in create_dir_all,
\* fail in fs::write before the file is touched, or fail after it was
\* truncated.
IoOutcomes ==
  { "ok", "create_dir_fails", "write_fails", "write_fails_partial" }

\* fs::write(path, content) on the files `files` of the generated directory
FsWrite(files, path, content, io) ==
  IF io = "write_fails" THEN files
  ELSE IF io = "write_fails_partial" THEN [files EXCEPT ![path] = FileWith(PartialText)]
  ELSE [files EXCEPT ![path] = FileWith(content)]

\* A return of write_output that leaves the disk alone
Untouched(kind, path, files, dir_exists) ==
  [status |-> Finished(kind, path, ""), files |-> files,
   dir_exists |-> dir_exists, wrote |-> FALSE]

\* fs::write(path, content)?; Ok(()) with the directory in state dir_after
Wrote(path, content, files, dir_after, io) ==
  [status |-> IF io \in {"write_fails", "write_fails_partial"}
              THEN Finished("WriteError", path, "")
              ELSE Finished("Ok", path, ""),
   files |-> FsWrite(files, path, content, io),
   dir_exists |-> dir_after, wrote |-> TRUE]

\* A write_output without the --check branches: it writes whenever write
\* mode would.
WriteAlways(path, content, chk, files, dir_exists, io) ==
  IF files[path].state = "file"
  THEN IF files[path].content # content
       THEN Wrote(path, content, files, dir_exists, io)
       ELSE Untouched("Ok", path, files, dir_exists)
  ELSE IF files[path].state = "absent"
  THEN IF io = "create_dir_fails"
       THEN Untouched("CreateDirError", path, files, dir_exists)
       ELSE Wrote(path, content, files, TRUE, io)
  ELSE Untouched("ReadError", path, files, dir_exists)

\* A write_output whose check mode passes over an absent file.
CheckAcceptsAbsent(path, content, chk, files, dir_exists, io) ==
  IF files[path].state = "file"
  THEN IF files[path].content # content
       THEN IF chk THEN Untouched("DriftDetected", path, files, dir_exists)
            ELSE Wrote(path, content, files, dir_exists, io)
       ELSE Untouched("Ok", path, files, dir_exists)
  ELSE IF files[path].state = "absent"
  THEN IF chk THEN Untouched("Ok", path, files, dir_exists)
       ELSE IF io = "create_dir_fails"
       THEN Untouched("CreateDirError", path, files, dir_exists)
       ELSE Wrote(path, content, files, TRUE, io)
  ELSE Untouched("ReadError", path, files, dir_exists)

\* write_output: the exit of the call, the files and the directory after it,
\* and whether fs::write was called.
write_output(path, content, chk, files, dir_exists, io) ==
  IF files[path].state = "file"
  THEN IF files[path].content # content
       THEN IF chk THEN Untouched("DriftDetected", path, files, dir_exists)
            ELSE Wrote(path, content, files, dir_exists, io)
       ELSE Untouched("Ok", path, files, dir_exists)
  ELSE IF files[path].state = "absent"
  THEN IF chk THEN Untouched("MissingArtifact", path, files, dir_exists)
       ELSE IF io = "create_dir_fails"
       THEN Untouched("CreateDirError", path, files, dir_exists)
       ELSE Wrote(path, content, files, TRUE, io)
  ELSE Untouched("ReadError", path, files, dir_exists)

\* The extension of a file name whose last "." is at position last (0 when
\* it has none); a name whose only "." is its first character has none.
ExtensionAt(name, last) ==
  IF last <= 1 THEN None ELSE Some(SubSeq(name, last + 1, Len(name)))

\* Path::extension of a file name
extension(name) ==
  ExtensionAt(name, LastDot(name))

\* The .json entries of a directory listing, in the order of the listing
JsonPaths(listing) ==
  SelectSeq(listing, LAMBDA name : extension(name) = Some(<<"j", "s", "o", "n">>))

\* map_paths left in the order of the directory listing
ListingOrder(paths) ==
  paths

\* map_paths.sort()
SortPaths(paths) ==
  SortedByKey(paths, paths)

\* normalized.sort_by(|a, b| a.pack_id.cmp(&b.pack_id))
SortPacksById(packs) ==
  SortedByKey(packs, [i \in DOMAIN packs |-> packs[i].pack_id])

\* load_pack_map on a descriptor file [parses, pack]
load_pack_map(file) ==
  IF file.parses THEN Ok(file.pack) ELSE Err("ParseError")

ModPath ==
  <<"m", "o", "d", ".", "r", "s">>

\* generated_dir.join(format!("{}.rs", pack.pack_id))
PackPath(pack_id) ==
  pack_id \o <<".", "r", "s">>

(***************************************************************************)
(* The descriptors and the generated directory of the generation runs      *)
(***************************************************************************)
MaxRuns == 2

PackP ==
  <<"p">>

PackQ ==
  <<"q">>

RegularVariant(id, feature) ==
  [id |-> id, style |-> "Regular", size |-> SizeRegular, family |-> <<"D", "R">>,
   ttf_asset_path |-> <<"d", "-", "r", ".", "t", "t", "f">>, feature |-> feature]

FilledVariant(id, family, path) ==
  [id |-> id, style |-> "Filled", size |-> SizeCustom(20), family |-> family,
   ttf_asset_path |-> path, feature |-> Some(FeatureX)]

PlainIcon(name) ==
  [name |-> name, codepoint |-> Some(1), overrides |-> <<>>, availability |-> None]

\* What a descriptor file may hold: text that does not parse, two packs of
\* different ids, a second pack of id p, a pack that normalize_pack rejects
\* and a pack whose variants give one font file two family names.
DescriptorPool ==
  { [parses |-> FALSE],
    [parses |-> TRUE,
     pack |-> [pack_id |-> PackP, variants |-> <<RegularVariant(IdA, None)>>,
               icons |-> <<PlainIcon(<<"t">>)>>]],
    [parses |-> TRUE,
     pack |-> [pack_id |-> PackQ,
               variants |-> <<FilledVariant(IdB, <<"D", "F">>,
                                            <<"d", "-", "f", ".", "t", "t", "f">>),
                              RegularVariant(IdA, None)>>,
               icons |-> <<PlainIcon(<<"u">>)>>]],
    [parses |-> TRUE,
     pack |-> [pack_id |-> PackP, variants |-> <<RegularVariant(IdA, None)>>,
               icons |-> <<PlainIcon(<<"u">>)>>]],
    [parses |-> TRUE,
     pack |-> [pack_id |-> PackQ, variants |-> <<RegularVariant(IdA, None)>>,
               icons |-> <<[name |-> <<"t">>, codepoint |-> NoCodepoint,
                            overrides |-> <<>>, availability |-> None]>>]],
    [parses |-> TRUE,
     pack |-> [pack_id |-> PackQ,
               variants |-> <<RegularVariant(IdA, None),
                              FilledVariant(IdB, <<"D", "F">>,
                                            <<"d", "-", "r", ".", "t", "t", "f">>)>>,
               icons |-> <<PlainIcon(<<"t">>)>>]] }

\* The names a descriptor file may have, and a file of the maps directory
\* that is no descriptor.
MapFileNames ==
  { <<"a", ".", "j", "s", "o", "n">>, <<"b", ".", "j", "s", "o", "n">> }

NotesFile ==
  <<"n", ".", "t", "x", "t">>

\* The maps directories: the descriptor files by name.
MapsDirs ==
  UNION { [names -> DescriptorPool] : names \in SUBSET MapFileNames }

ArtifactPaths ==
  { ModPath, PackPath(PackP), PackPath(PackQ) }

\* The orders in which read_dir may list a set of entries.
Listings(entries) ==
  { listing \in [1..Cardinality(entries) -> entries] :
      \A e \in entries : \E i \in DOMAIN listing : listing[i] = e }

\* What a file of the generated directory may hold when the runs start.
StartFiles ==
  { Absent, Unreadable, FileWith(StaleText) }

(***************************************************************************)
(* The descriptors given to the normalizer and the asset deduplicator      *)
(***************************************************************************)
MaxNames == 2

FeatureY ==
  <<"y">>

BlankFeature ==
  <<" ">>

\* Variants that may share an id or a (style, size), some with a blank
\* feature name
ClashingVariants ==
  { [id |-> id, style |-> sh.style, size |-> sh.size, family |-> sh.family,
     ttf_asset_path |-> sh.ttf_asset_path, feature |-> feature] :
      id \in {IdA, IdB}, sh \in VariantShapes, feature \in {None, Some(BlankFeature)} }

ClashingPacks ==
  { [pack_id |-> DemoPackId, variants |-> variants, icons |-> <<>>] :
      variants \in SeqsUpTo(ClashingVariants, MaxVariants) }

\* The n-th variant of a pack whose variants differ in id and (style, size):
\* its family, font file and feature are free.
NthVariant(n, family, path, feature) ==
  [id |-> [i \in 1..n |-> "a"], style |-> "Regular", size |-> SizeCustom(n),
   family |-> family, ttf_asset_path |-> path, feature |-> feature]

\* family, font file and feature of the variants that may share a font file
FontChoices ==
  { [family |-> family, ttf_asset_path |-> path, feature |-> feature] :
      family \in { <<"D", "R">>, <<"D", "F">> },
      path \in { <<"x", "/", "d", ".", "t", "t", "f">>, <<"x", "\\", "d", ".", "t", "t", "f">>,
                 <<"d", "-", "r", ".", "t", "t", "f">>, <<"d", ".", "t", "t", "f">> },
      feature \in {None, Some(FeatureX), Some(FeatureY)} }

SharedFontPacks ==
  { [pack_id |-> DemoPackId,
     variants |-> [n \in DOMAIN fonts |->
                     NthVariant(n, fonts[n].family, fonts[n].ttf_asset_path, fonts[n].feature)],
     icons |-> <<PlainIcon(<<"t">>)>>] :
      fonts \in SeqsUpTo(FontChoices, MaxVariants) }

\* Icons named t with every combination of default codepoint, overrides and
\* availability, sound or not
FlawedIcons ==
  { [name |-> <<"t">>, codepoint |-> codepoint, overrides |-> overrides,
     availability |-> availability] :
      codepoint \in {NoCodepoint, Some(1)},
      overrides \in { <<>>, [id \in {IdA} |-> 2], [id \in {IdB} |-> 3] },
      availability \in { None, Some(<<>>), Some(<<IdA>>), Some(<<IdB>>),
                         Some(<<IdA, IdA>>), Some(<<IdB, IdA>>) } }

\* The variant lists of the packs with flawed icons: sound, in and out of id
\* order, the empty list included
SoundVariantLists ==
  { <<>>,
    <<RegularVariant(IdA, None)>>,
    <<RegularVariant(IdA, None),
      FilledVariant(IdB, <<"D", "F">>, <<"d", "-", "f", ".", "t", "t", "f">>)>>,
    <<FilledVariant(IdB, <<"D", "F">>, <<"d", "-", "f", ".", "t", "t", "f">>),
      RegularVariant(IdA, None)>> }

FlawedIconPacks ==
  { [pack_id |-> DemoPackId, variants |-> variants, icons |-> icons] :
      variants \in SoundVariantLists, icons \in SeqsUpTo(FlawedIcons, MaxIcons) }

\* Icon names: plain, starting with a digit, a keyword, two names of one
\* identifier, an empty segment, a letter after a digit, two names that
\* differ in their separator and the empty name
NamePool ==
  { <<"t">>,
    <<"a", "r", "r", "o", "w", "-", "l", "e", "f", "t">>,
    <<"0", "-", "c", "i", "r", "c", "l", "e">>,
    <<"t", "y", "p", "e">>,
    <<"T", "y", "p", "e">>,
    <<"a", "-", "-", "b">>,
    <<"2", "x">>,
    <<"a", "-", "b">>,
    <<"a", "_", "b">>,
    <<>> }

NamedIconPacks ==
  { [pack_id |-> DemoPackId, variants |-> <<RegularVariant(IdA, None)>>,
     icons |-> [i \in DOMAIN names |-> PlainIcon(names[i])]] :
      names \in SeqsUpTo(NamePool, MaxNames) }

NormalizerInputs ==
  ClashingPacks \cup SharedFontPacks \cup FlawedIconPacks \cup NamedIconPacks

(***************************************************************************)
(* State                                                                   *)
(***************************************************************************)
VARIABLES
  raw,          \* lookup: the descriptor given to the generator
  stage,        \* lookup: "raw", "built" (the pack module was emitted) or "rejected";
                \* normalizer: "raw", "normalized", "rejected", "collected", "conflict",
                \* "rendered" or "unrendered"
  module,       \* lookup: the result of normalize_pack and render_pack
  lookup,       \* lookup: the call of try_icon with its result, or NoLookup
  fallback,     \* lookup: the front-end's second call of try_icon, or NoLookup
  normalized_pack, \* normalizer: the result of normalize_pack(raw)
  font_assets,  \* normalizer: the result of collect_font_assets
  maps_dir,     \* assets/maps: descriptor file name -> [parses, pack]
  maps_dir_ok,  \* whether read_dir can list assets/maps
  files,        \* src/generated: artifact path -> Absent, Unreadable or a file
  dir_exists,   \* whether src/generated exists
  runs,         \* the number of runs started
  check,        \* the --check switch of the current run
  pc,           \* where run_gen is: "idle", "read_dir", "load", "normalize",
                \* "render_mod", "render_pack", "write" or "done"
  map_paths,    \* run_gen's map_paths
  packs,        \* run_gen's packs
  normalized,   \* run_gen's normalized
  outputs,      \* run_gen's outputs
  written,      \* the number of outputs write_output returned Ok for
  status,       \* how the run ended, Running before
  files0,       \* history: files when the current run started
  dir_exists0,  \* history: dir_exists when the current run started
  fs_writes,    \* history: the paths fs::write was called on in this run, in order
  prev_outputs, \* history: the outputs of the previous run, if it rendered them all
  prev_run      \* history: the mode and the exit of the previous run, NoRun before

normVars == <<normalized_pack, font_assets>>

lookupVars == <<raw, stage, module, lookup, fallback, normVars>>

inputVars == <<maps_dir, maps_dir_ok>>

diskVars == <<files, dir_exists>>

runVars == <<runs, check, pc, map_paths, packs, normalized, outputs, written, status>>

historyVars == <<files0, dir_exists0, fs_writes, prev_outputs, prev_run>>

genVars == <<inputVars, diskVars, runVars, historyVars>>

vars == <<lookupVars, genVars>>

NoLookup ==
  [called |-> FALSE]

NoOutputs ==
  <<>>

NoRun ==
  [check |-> FALSE, kind |-> "NoRun"]

\* The generator at rest
GenIdle ==
  /\ runs = 0
  /\ check = FALSE
  /\ pc = "idle"
  /\ map_paths = <<>>
  /\ packs = <<>>
  /\ normalized = <<>>
  /\ outputs = <<>>
  /\ written = 0
  /\ status = Running
  /\ files0 = files
  /\ dir_exists0 = dir_exists
  /\ fs_writes = <<>>
  /\ prev_outputs = NoOutputs
  /\ prev_run = NoRun

\* No descriptor is being looked up
LookupIdle ==
  /\ raw = [pack_id |-> <<>>, variants |-> <<>>, icons |-> <<>>]
  /\ stage = "idle"
  /\ module = Err("")
  /\ lookup = NoLookup
  /\ fallback = NoLookup
  /\ normalized_pack = Err("")
  /\ font_assets = Err("")

(***************************************************************************)
(* Lookup specification: one descriptor is compiled, then queried          *)
(***************************************************************************)
\* normalize_pack followed by render_pack
Generate(pack) ==
  AndThen(normalize_pack(pack), LAMBDA canonical : render_pack(canonical))

LookupInit ==
  /\ raw \in RawPacks
  /\ stage = "raw"
  /\ module = Err("")
  /\ lookup = NoLookup
  /\ fallback = NoLookup
  /\ normalized_pack = Err("")
  /\ font_assets = Err("")
  /\ maps_dir = <<>>
  /\ maps_dir_ok = TRUE
  /\ files = [path \in ArtifactPaths |-> Absent]
  /\ dir_exists = FALSE
  /\ GenIdle

Build ==
  /\ stage = "raw"
  /\ module' = Generate(raw)
  /\ stage' = IF module'.ok THEN "built" ELSE "rejected"
  /\ UNCHANGED <<raw, lookup, fallback, normVars, genVars>>

\* try_icon reads nothing but the emitted tables, so one call from the built
\* state stands for every call.
TryIcon ==
  /\ stage = "built"
  /\ ~lookup.called
  /\ \E features \in FeatureSets, name \in QueryNames,
        style \in QueryStyles, size \in QuerySizes :
       /\ Compiles(module.v, features)
       /\ lookup' = [called |-> TRUE, features |-> features, name |-> name,
                     style |-> style, size |-> size,
                     result |-> try_icon(module.v, features, name, style, size)]
  /\ UNCHANGED <<raw, stage, module, fallback, normVars, genVars>>

\* The second call of a front-end's resolve_icon after VariantUnavailable:
\* try_icon with the first entry of available, or the front-end's own error
\* when available is empty.
Retry(available) ==
  IF available = <<>> THEN [kind |-> "NoAvailableVariants"]
  ELSE try_icon(module.v, lookup.features, lookup.name,
                Head(available).style, Head(available).size)

\* The fallback of the demo front-ends
Fallback ==
  /\ lookup.called
  /\ ~fallback.called
  /\ lookup.result.kind = "VariantUnavailable"
  /\ fallback' = [called |-> TRUE, result |-> Retry(lookup.result.available)]
  /\ UNCHANGED <<raw, stage, module, lookup, normVars, genVars>>

LookupNext ==
  \/ Build
  \/ TryIcon
  \/ Fallback

LookupSpec ==
  LookupInit /\ [][LookupNext]_vars

(***************************************************************************)
(* Normalizer specification: one descriptor is normalized, then its font   *)
(* assets are collected and its artifacts rendered                         *)
(***************************************************************************)
NormalizeInit ==
  /\ raw \in NormalizerInputs
  /\ stage = "raw"
  /\ module = Err("")
  /\ lookup = NoLookup
  /\ fallback = NoLookup
  /\ normalized_pack = Err("")
  /\ font_assets = Err("")
  /\ maps_dir = <<>>
  /\ maps_dir_ok = TRUE
  /\ files = [path \in ArtifactPaths |-> Absent]
  /\ dir_exists = FALSE
  /\ GenIdle

\* normalized.push(normalize_pack(pack)?)
Normalize ==
  /\ stage = "raw"
  /\ normalized_pack' = normalize_pack(raw)
  /\ stage' = IF normalized_pack'.ok THEN "normalized" ELSE "rejected"
  /\ UNCHANGED <<raw, module, lookup, fallback, font_assets, genVars>>

\* collect_font_assets(pack)?, as render_mod and render_pack call it
CollectFontAssets ==
  /\ stage = "normalized"
  /\ font_assets' = collect_font_assets(normalized_pack.v)
  /\ stage' = IF font_assets'.ok THEN "collected" ELSE "conflict"
  /\ UNCHANGED <<raw, module, lookup, fallback, normalized_pack, genVars>>

\* The outputs run_gen renders for the one pack: the index, then the pack
\* module.
ArtifactsOf(pack) ==
  AndThen(render_mod(<<pack>>), LAMBDA index :
    AndThen(render_pack(pack), LAMBDA pack_module :
      Ok(<<[path |-> ModPath, content |-> rustfmt(index)],
           [path |-> PackPath(pack.pack_id), content |-> rustfmt(pack_module)]>>)))

\* outputs.push of both artifacts, or the rendering error
PushArtifacts(rendered) ==
  /\ outputs' = IF rendered.ok THEN rendered.v ELSE <<>>
  /\ stage' = IF rendered.ok THEN "rendered" ELSE "unrendered"

\* render_mod and render_pack for the pack, as run_gen calls them
RenderArtifacts ==
  /\ stage = "collected"
  /\ PushArtifacts(ArtifactsOf(normalized_pack.v))
  /\ UNCHANGED <<raw, module, lookup, fallback, normVars, inputVars, diskVars, historyVars>>
  /\ UNCHANGED <<runs, check, pc, map_paths, packs, normalized, written, status>>

NormalizeNext ==
  \/ Normalize
  \/ CollectFontAssets
  \/ RenderArtifacts

NormalizeSpec ==
  NormalizeInit /\ [][NormalizeNext]_vars

(***************************************************************************)
(* Generation specification: runs of `xtask gen [--check]` over one maps   *)
(* directory and one generated directory                                   *)
(***************************************************************************)
GenInit ==
  /\ LookupIdle
  /\ maps_dir_ok \in BOOLEAN
  /\ maps_dir \in (IF maps_dir_ok THEN MapsDirs ELSE {<<>>})
  /\ dir_exists \in BOOLEAN
  /\ files \in [ArtifactPaths -> IF dir_exists THEN StartFiles ELSE {Absent}]
  /\ GenIdle

\* The run ends: run_gen returns.
Return(result) ==
  /\ pc' = "done"
  /\ status' = result

\* main parses the arguments and calls run_gen(check).
StartRun ==
  /\ pc \in {"idle", "done"}
  /\ runs < MaxRuns
  /\ \E chk \in BOOLEAN : check' = chk
  /\ runs' = runs + 1
  /\ pc' = "read_dir"
  /\ map_paths' = <<>>
  /\ packs' = <<>>
  /\ normalized' = <<>>
  /\ outputs' = <<>>
  /\ written' = 0
  /\ status' = Running
  /\ files0' = files
  /\ dir_exists0' = dir_exists
  /\ fs_writes' = <<>>
  /\ prev_outputs' = IF pc = "done" /\ Len(outputs) = Len(normalized) + 1
                        /\ normalized # <<>>
                     THEN outputs ELSE NoOutputs
  /\ prev_run' = IF pc = "done" THEN [check |-> check, kind |-> status.kind] ELSE NoRun
  /\ UNCHANGED <<lookupVars, inputVars, diskVars>>

\* fs::read_dir, the .json filter and map_paths.sort()
ReadDir ==
  /\ pc = "read_dir"
  /\ IF ~maps_dir_ok
     THEN /\ Return(Finished("ReadDirError", <<>>, ""))
          /\ UNCHANGED map_paths
     ELSE \E listing \in Listings(DOMAIN maps_dir \cup {NotesFile}) :
            /\ map_paths' = SortPaths(JsonPaths(listing))
            /\ IF map_paths' = <<>>
               THEN Return(Finished("NoMapFiles", <<>>, ""))
               ELSE pc' = "load" /\ UNCHANGED status
  /\ UNCHANGED <<lookupVars, inputVars, diskVars, historyVars>>
  /\ UNCHANGED <<runs, check, packs, normalized, outputs, written>>

\* packs.push(loaded?) for the descriptor at path
PushPack(path, loaded) ==
  IF ~loaded.ok
  THEN /\ Return(Finished("LoadError", path, loaded.err))
       /\ UNCHANGED packs
  ELSE /\ packs' = Append(packs, loaded.v)
       /\ pc' = IF Len(packs') = Len(map_paths) THEN "normalize" ELSE "load"
       /\ UNCHANGED status

\* One turn of the loop `packs.push(load_pack_map(&path)?)`
LoadPackMap ==
  /\ pc = "load"
  /\ PushPack(map_paths[Len(packs) + 1], load_pack_map(maps_dir[map_paths[Len(packs) + 1]]))
  /\ UNCHANGED <<lookupVars, inputVars, diskVars, historyVars>>
  /\ UNCHANGED <<runs, check, map_paths, normalized, outputs, written>>

\* normalized.push(canonical?), followed by normalized.sort_by after the last
\* pack
PushNormalized(canonical) ==
  IF ~canonical.ok
  THEN /\ Return(Finished("NormalizationError", <<>>, canonical.err))
       /\ UNCHANGED normalized
  ELSE IF Len(normalized) + 1 = Len(packs)
  THEN /\ normalized' = SortPacksById(Append(normalized, canonical.v))
       /\ pc' = "render_mod"
       /\ UNCHANGED status
  ELSE /\ normalized' = Append(normalized, canonical.v)
       /\ UNCHANGED <<pc, status>>

\* A generator that writes a pack's artifact as soon as the pack is
\* normalized, before the later packs are looked at.
NormalizePackThenWrite ==
  /\ pc = "normalize"
  /\ PushNormalized(normalize_pack(packs[Len(normalized) + 1]))
  /\ files' = IF pc' # "done" /\ ~check
              THEN [files EXCEPT ![PackPath(packs[Len(normalized) + 1].pack_id)] =
                      FileWith(rustfmt(packs[Len(normalized) + 1]))]
              ELSE files
  /\ UNCHANGED <<lookupVars, inputVars, dir_exists, historyVars>>
  /\ UNCHANGED <<runs, check, map_paths, packs, outputs, written>>

\* One turn of the loop `normalized.push(normalize_pack(pack)?)`; the last
\* turn is followed by normalized.sort_by.
NormalizePack ==
  /\ pc = "normalize"
  /\ PushNormalized(normalize_pack(packs[Len(normalized) + 1]))
  /\ UNCHANGED <<lookupVars, inputVars, diskVars, historyVars>>
  /\ UNCHANGED <<runs, check, map_paths, packs, outputs, written>>

\* outputs.push((path, rustfmt(&code?)?)): the push of a rendered text, or
\* the failure of the renderer or of the formatter.
PushOutput(path, rendered) ==
  IF ~rendered.ok
  THEN /\ Return(Finished("RenderError", path, rendered.err))
       /\ UNCHANGED outputs
  ELSE \E formatter_ok \in BOOLEAN :
         IF ~formatter_ok
         THEN /\ Return(Finished("FormatterError", path, ""))
              /\ UNCHANGED outputs
         ELSE /\ outputs' = Append(outputs, [path |-> path, content |-> rustfmt(rendered.v)])
              /\ pc' = IF Len(outputs') = Len(normalized) + 1 THEN "write" ELSE "render_pack"
              /\ UNCHANGED status

\* outputs.push((generated_dir.join("mod.rs"), rustfmt(&render_mod(&normalized)?)?))
RenderMod ==
  /\ pc = "render_mod"
  /\ PushOutput(ModPath, render_mod(normalized))
  /\ UNCHANGED <<lookupVars, inputVars, diskVars, historyVars>>
  /\ UNCHANGED <<runs, check, map_paths, packs, normalized, written>>

\* A generator that writes the index before it renders the pack modules
RenderPackAfterWritingMod ==
  /\ pc = "render_pack"
  /\ PushOutput(PackPath(normalized[Len(outputs)].pack_id),
                render_pack(normalized[Len(outputs)]))
  /\ files' = IF check THEN files
              ELSE [files EXCEPT ![ModPath] = FileWith(outputs[1].content)]
  /\ UNCHANGED <<lookupVars, inputVars, dir_exists, historyVars>>
  /\ UNCHANGED <<runs, check, map_paths, packs, normalized, written>>

\* One turn of the loop over &normalized that renders a pack module
RenderPack ==
  /\ pc = "render_pack"
  /\ PushOutput(PackPath(normalized[Len(outputs)].pack_id),
                render_pack(normalized[Len(outputs)]))
  /\ UNCHANGED <<lookupVars, inputVars, diskVars, historyVars>>
  /\ UNCHANGED <<runs, check, map_paths, packs, normalized, written>>

\* What run_gen does with the return `done` of write_output for the output
\* at path: `?` ends the run on an error, and the return after the last
\* output ends it with Ok(()).
Written(path, done) ==
  /\ files' = done.files
  /\ dir_exists' = done.dir_exists
  /\ fs_writes' = IF done.wrote THEN Append(fs_writes, path) ELSE fs_writes
  /\ IF done.status.kind # "Ok"
     THEN Return(done.status) /\ UNCHANGED written
     ELSE /\ written' = written + 1
          /\ IF written' = Len(outputs)
             THEN Return(Finished("Ok", <<>>, ""))
             ELSE UNCHANGED <<pc, status>>

\* One turn of the loop `write_output(path, content, check)?`; after the last
\* turn run_gen returns Ok(()).
WriteOutput ==
  /\ pc = "write"
  /\ \E io \in IoOutcomes :
       Written(outputs[written + 1].path,
               write_output(outputs[written + 1].path, outputs[written + 1].content,
                            check, files, dir_exists, io))
  /\ UNCHANGED <<lookupVars, inputVars, files0, dir_exists0, prev_outputs, prev_run>>
  /\ UNCHANGED <<runs, check, map_paths, packs, normalized, outputs>>

GenNext ==
  \/ StartRun
  \/ ReadDir
  \/ LoadPackMap
  \/ NormalizePack
  \/ RenderMod
  \/ RenderPack
  \/ WriteOutput

GenSpec ==
  GenInit /\ [][GenNext]_vars

(***************************************************************************)
(* Properties of the generation runs                                       *)
(***************************************************************************)
\* run_gen reached the write loop: every output was rendered and formatted.
Rendered ==
  normalized # <<>> /\ Len(outputs) = Len(normalized) + 1

\* The file of output i holds the content of output i.
InSync(i) ==
  files[outputs[i].path] = FileWith(outputs[i].content)

\* C1: a run in check mode, whatever its outcome, leaves every artifact file
\* and the generated directory as they were when the run started, and never
\* calls fs::write.
CheckModeNeverWrites ==
  (pc # "idle" /\ check) =>
    /\ files = files0
    /\ dir_exists = dir_exists0
    /\ fs_writes = <<>>

\* A check-mode run ended on an artifact that write mode would have
\* overwritten.
CheckModeDriftSeen ==
  /\ check
  /\ pc = "done"
  /\ status.kind = "DriftDetected"
  /\ files = files0

\* The first output whose file is not a readable file of identical content,
\* 0 when there is none.
FirstOutOfSync ==
  IF \A i \in DOMAIN outputs : InSync(i) THEN 0
  ELSE CHOOSE i \in DOMAIN outputs :
         /\ ~InSync(i)
         /\ \A j \in DOMAIN outputs : ~InSync(j) => i <= j

\* How a check-mode run ends when output i is the first out of sync.
CheckExit(i) ==
  IF i = 0 THEN Finished("Ok", <<>>, "")
  ELSE IF files[outputs[i].path].state = "absent"
  THEN Finished("MissingArtifact", outputs[i].path, "")
  ELSE IF files[outputs[i].path].state = "file"
  THEN Finished("DriftDetected", outputs[i].path, "")
  ELSE Finished("ReadError", outputs[i].path, "")

\* C2: a check-mode run that rendered its outputs examines them in output
\* order and ends at the first one whose file is absent (missing artifact),
\* holds another content (drift) or cannot be read (read error), each naming
\* the path; it succeeds exactly when every output's file is readable and
\* holds the output's content.
CheckFailsAtFirstOutOfSync ==
  (check /\ pc = "done" /\ Rendered) =>
    /\ status = CheckExit(FirstOutOfSync)
    /\ written = IF FirstOutOfSync = 0 THEN Len(outputs) ELSE FirstOutOfSync - 1

\* A check-mode run passed the index artifact and stopped at a pack artifact
\* that is absent.
CheckStoppedAtLaterArtifact ==
  /\ check
  /\ pc = "done"
  /\ Rendered
  /\ written >= 1
  /\ status.kind = "MissingArtifact"

\* The file of output i is absent or holds another content.
AbsentOrDiffers(i) ==
  \/ files[outputs[i].path].state = "absent"
  \/ /\ files[outputs[i].path].state = "file"
     /\ files[outputs[i].path].content # outputs[i].content

\* The first output whose file is absent or holds another content, 0 when
\* there is none.
FirstAbsentOrDiffering ==
  IF \A i \in DOMAIN outputs : ~AbsentOrDiffers(i) THEN 0
  ELSE CHOOSE i \in DOMAIN outputs :
         /\ AbsentOrDiffers(i)
         /\ \A j \in DOMAIN outputs : AbsentOrDiffers(j) => i <= j

\* C2 as stated: the run fails at the first output that is absent or
\* differs, with a missing-artifact or drift error, and succeeds otherwise.
CheckFailsOnlyOnAbsentOrDiffering ==
  (check /\ pc = "done" /\ Rendered) =>
    status = CheckExit(FirstAbsentOrDiffering)

\* The packs of the run were all loaded and normalized, and the index
\* artifact (whose rendering rejects conflicting family names in any pack)
\* was rendered.
AllValidated ==
  /\ map_paths # <<>>
  /\ Len(packs) = Len(map_paths)
  /\ Len(normalized) = Len(packs)
  /\ Len(outputs) >= 1

\* The run ended on a descriptor that does not load or a pack that is not
\* valid.
ValidationFailed ==
  /\ pc = "done"
  /\ \/ status.kind \in {"LoadError", "NormalizationError"}
     \/ status.kind = "RenderError" /\ status.err = "ConflictingFamily"

\* C3: a write-mode run that ends on a load or validation failure leaves
\* every artifact file and the generated directory as they were, and no run
\* calls fs::write before all its packs are loaded and validated.
NoWriteBeforeValidation ==
  /\ (~check /\ ValidationFailed) => files = files0 /\ dir_exists = dir_exists0
  /\ (pc # "idle" /\ ~AllValidated) => files = files0 /\ fs_writes = <<>>

\* A write-mode run accepted one pack and then ended on a pack that
\* normalize_pack rejects.
LaterPackRejected ==
  /\ ~check
  /\ pc = "done"
  /\ status.kind = "NormalizationError"
  /\ Len(normalized) >= 1

\* C4 as stated: after a write-mode run that succeeds, the file of every
\* output of the run holds the output's content.
EveryArtifactOnDisk ==
  (~check /\ pc = "done" /\ status.kind = "Ok") =>
    \A i \in DOMAIN outputs : InSync(i)

\* C5: the outputs of a run are, one by one, the outputs of the run before
\* it over the same descriptor files, whatever order read_dir lists the
\* files in.
SameOutputsEveryRun ==
  prev_outputs # NoOutputs =>
    /\ Len(outputs) <= Len(prev_outputs)
    /\ \A i \in DOMAIN outputs : outputs[i] = prev_outputs[i]
    /\ (Rendered => outputs = prev_outputs)

\* Two runs in a row rendered the artifacts of two descriptor files.
TwoRunsRendered ==
  /\ prev_outputs # NoOutputs
  /\ Rendered
  /\ Len(outputs) = 3

(***************************************************************************)
(* Properties of the lookup, stated on the descriptor that was compiled    *)
(***************************************************************************)
\* The requested (style, size)
Requested ==
  VariantKey(lookup.style, lookup.size)

\* The descriptor declares an icon of the requested name.
KnownName ==
  \E i \in DOMAIN raw.icons : raw.icons[i].name = lookup.name

\* The icon of the requested name (names are unique in an accepted
\* descriptor)
RequestedIcon ==
  CHOOSE icon \in Range(raw.icons) : icon.name = lookup.name

\* The variant ids in the availability of an icon of an accepted descriptor:
\* the explicit list, else every variant when the icon has a default
\* codepoint, else the variants it overrides.
AvailabilityOf(icon) ==
  IF icon.availability.some THEN Range(icon.availability.v)
  ELSE IF icon.codepoint.some THEN { raw.variants[i].id : i \in DOMAIN raw.variants }
  ELSE DOMAIN icon.overrides

\* The variants in the availability of an icon
AvailableVariants(icon) ==
  { v \in Range(raw.variants) : v.id \in AvailabilityOf(icon) }

\* The codepoint the descriptor gives an icon for a variant
DeclaredCodepoint(icon, variant_id) ==
  IF variant_id \in DOMAIN icon.overrides THEN icon.overrides[variant_id]
  ELSE icon.codepoint.v

\* The result Ok of a lookup that hits the variant v of an icon
Hit(icon, v) ==
  [kind |-> "Ok", family |-> v.family, codepoint |-> DeclaredCodepoint(icon, v.id)]

\* C6: for an icon of an accepted pack and a variant of its availability
\* whose feature gate is open in the build, try_icon returns Ok with the
\* variant's family and the icon's override for the variant, else its default
\* codepoint.
AvailableEnabledVariantResolves ==
  (lookup.called /\ KnownName) =>
    \A v \in AvailableVariants(RequestedIcon) :
      (KeyOf(v) = Requested /\ Included(v.feature, lookup.features)) =>
        lookup.result = Hit(RequestedIcon, v)

\* A lookup returned the codepoint of an override.
OverrideResolved ==
  /\ lookup.called
  /\ KnownName
  /\ lookup.result.kind = "Ok"
  /\ \E v \in AvailableVariants(RequestedIcon) :
       /\ KeyOf(v) = Requested
       /\ v.id \in DOMAIN RequestedIcon.overrides
       /\ lookup.result.codepoint = RequestedIcon.overrides[v.id]
       /\ lookup.result.codepoint # RequestedIcon.codepoint.v

\* C6 as stated: every variant of the icon's availability resolves, whatever
\* the features of the build.
AvailableVariantResolves ==
  (lookup.called /\ KnownName) =>
    \A v \in AvailableVariants(RequestedIcon) :
      KeyOf(v) = Requested => lookup.result = Hit(RequestedIcon, v)

\* The variant of the descriptor with the given id (ids are unique in an
\* accepted descriptor)
VariantWithId(id) ==
  CHOOSE v \in Range(raw.variants) : v.id = id

\* The key of each variant of a sequence
KeysOfVariants(variants) ==
  [i \in DOMAIN variants |-> KeyOf(variants[i])]

\* The keys of the variants of the given ids, in that order
KeysInOrder(ids) ==
  [i \in DOMAIN ids |-> KeyOf(VariantWithId(ids[i]))]

\* The keys of the icon's available variants that the build keeps, in
\* ascending order of variant id
EnabledAvailableById(icon) ==
  KeysInOrder(SetToSortedSeq({ v.id : v \in { w \in AvailableVariants(icon) :
                                               Included(w.feature, lookup.features) } }))

\* The keys of the icon's available variants in the order the descriptor
\* declares the variants
AvailableAsDeclared(icon) ==
  KeysOfVariants(SelectSeq(raw.variants, LAMBDA v : v.id \in AvailabilityOf(icon)))

\* The requested key is the key of no variant in the icon's availability.
OutsideAvailability ==
  \A v \in AvailableVariants(RequestedIcon) : KeyOf(v) # Requested

\* C7: for a known name and a (style, size) outside the icon's availability,
\* try_icon returns VariantUnavailable with the pack id, the name, the
\* requested key and, as available, the keys of the available variants whose
\* feature gate is open, in ascending order of variant id.
UnavailableListsEnabledById ==
  (lookup.called /\ KnownName /\ OutsideAvailability) =>
    lookup.result = [kind |-> "VariantUnavailable", pack |-> raw.pack_id,
                     name |-> lookup.name, requested |-> Requested,
                     available |-> EnabledAvailableById(RequestedIcon)]

\* A lookup outside the availability of an icon with two variants that the
\* descriptor declares in descending order of id.
UnavailableWithTwoListed ==
  /\ lookup.called
  /\ KnownName
  /\ OutsideAvailability
  /\ lookup.result.kind = "VariantUnavailable"
  /\ Len(lookup.result.available) = 2
  /\ Len(raw.variants) = 2
  /\ StrLess(raw.variants[2].id, raw.variants[1].id)

\* C7 as stated: available lists the keys of the icon's availability in the
\* order in which the descriptor declares the variants.
UnavailableListsAsDeclared ==
  (lookup.called /\ KnownName /\ OutsideAvailability) =>
    lookup.result = [kind |-> "VariantUnavailable", pack |-> raw.pack_id,
                     name |-> lookup.name, requested |-> Requested,
                     available |-> AvailableAsDeclared(RequestedIcon)]

\* C8: for a name that is no icon of the pack, try_icon returns IconNotFound
\* with the pack id and the name, whatever the (style, size).
UnknownNameIsIconNotFound ==
  (lookup.called /\ ~KnownName) =>
    lookup.result = [kind |-> "IconNotFound", pack |-> raw.pack_id,
                     name |-> lookup.name]

\* An unknown name was looked up with a (style, size) that no variant of the
\* pack has.
UnknownNameUndeclaredVariant ==
  /\ lookup.called
  /\ ~KnownName
  /\ raw.variants # <<>>
  /\ \A i \in DOMAIN raw.variants : KeyOf(raw.variants[i]) # Requested
  /\ lookup.result.kind = "IconNotFound"

\* C9 as stated: in a build that keeps no variant of the pack, try_icon
\* returns PackDisabled.
NoEnabledVariantIsPackDisabled ==
  (/\ lookup.called
   /\ raw.variants # <<>>
   /\ \A i \in DOMAIN raw.variants :
        ~Included(raw.variants[i].feature, lookup.features)) =>
    lookup.result.kind = "PackDisabled"

\* C10: try_icon returns Ok or a typed error and never panics; whenever the
\* requested key is in the list icon_available returns, variant_info and
\* icon_codepoint both return a value.
LookupIsTotal ==
  lookup.called =>
    /\ lookup.result.kind \in {"Ok", "PackDisabled", "IconNotFound", "VariantUnavailable"}
    /\ (/\ icon_available(module.v, lookup.features, lookup.name).some
        /\ Requested \in Range(icon_available(module.v, lookup.features, lookup.name).v)) =>
         /\ variant_info(module.v, lookup.features, lookup.style, lookup.size).some
         /\ icon_codepoint(module.v, lookup.features, lookup.name, Requested).some

\* A lookup resolved a variant behind a feature gate that the build opens.
GatedVariantResolved ==
  /\ lookup.called
  /\ lookup.result.kind = "Ok"
  /\ \E i \in DOMAIN raw.variants :
       KeyOf(raw.variants[i]) = Requested /\ raw.variants[i].feature.some
  /\ lookup.features # {}

\* Some variant of the requested icon's availability is kept by the build.
SomeAvailableVariantEnabled ==
  \E v \in AvailableVariants(RequestedIcon) : Included(v.feature, lookup.features)

\* C11: when try_icon returns VariantUnavailable, its available list is empty
\* exactly when every variant of the icon's availability is behind a feature
\* the build does not enable; when the list is not empty, try_icon for the
\* same pack and name with the first entry of available returns Ok.
FallbackResolvesUnlessAllGatedOff ==
  fallback.called =>
    /\ (lookup.result.available # <<>>) <=> SomeAvailableVariantEnabled
    /\ lookup.result.available # <<>> => fallback.result.kind = "Ok"

\* The fallback of a front-end resolved the icon with the first available
\* variant, after a request the icon has no variant for.
FallbackResolved ==
  /\ fallback.called
  /\ lookup.result.available # <<>>
  /\ fallback.result.kind = "Ok"
  /\ OutsideAvailability

\* C11 as stated: the available list of VariantUnavailable is never empty and
\* the second call with its first entry returns Ok.
FallbackAlwaysResolves ==
  fallback.called =>
    /\ lookup.result.available # <<>>
    /\ fallback.result.kind = "Ok"

(***************************************************************************)
(* Claims about the normalizer (NormalizeSpec)                             *)
(***************************************************************************)
\* normalize_pack has returned for the descriptor raw.
NormalizeReturned ==
  stage \in {"normalized", "rejected", "collected", "conflict", "rendered", "unrendered"}

SameIdTwice ==
  \E i, j \in DOMAIN raw.variants : i < j /\ raw.variants[i].id = raw.variants[j].id

SameKeyTwice ==
  \E i, j \in DOMAIN raw.variants :
    /\ i < j
    /\ raw.variants[i].style = raw.variants[j].style
    /\ raw.variants[i].size = raw.variants[j].size

BlankFeatureDeclared ==
  \E i \in DOMAIN raw.variants :
    raw.variants[i].feature.some /\ raw.variants[i].feature.v \in {<<>>, BlankFeature}

\* C12: normalize_pack rejects every pack in which two variants have the same
\* id or the same (style, size); when no variant has a blank feature name the
\* error is DuplicateVariantId if only ids repeat, DuplicateVariantKey if only
\* (style, size) pairs repeat, and one of the two if both do; in every
\* accepted pack the variant ids are pairwise distinct and so are the
\* variant keys.
DuplicateVariantsRejected ==
  NormalizeReturned =>
    /\ (SameIdTwice \/ SameKeyTwice) => ~normalized_pack.ok
    /\ (SameIdTwice /\ ~SameKeyTwice /\ ~BlankFeatureDeclared) =>
         normalized_pack.err = "DuplicateVariantId"
    /\ (SameKeyTwice /\ ~SameIdTwice /\ ~BlankFeatureDeclared) =>
         normalized_pack.err = "DuplicateVariantKey"
    /\ ((SameIdTwice \/ SameKeyTwice) /\ ~BlankFeatureDeclared) =>
         normalized_pack.err \in {"DuplicateVariantId", "DuplicateVariantKey"}
    /\ normalized_pack.ok =>
         \A i, j \in DOMAIN normalized_pack.v.variants :
           i # j => /\ normalized_pack.v.variants[i].id # normalized_pack.v.variants[j].id
                    /\ normalized_pack.v.variants[i].key # normalized_pack.v.variants[j].key

\* A pack whose two variants have different ids and the same (style, size)
\* was rejected for the repeated pair.
DuplicateKeyRejected ==
  /\ NormalizeReturned
  /\ Len(raw.variants) = 2
  /\ ~SameIdTwice
  /\ SameKeyTwice
  /\ normalized_pack = Err("DuplicateVariantKey")

\* The variant ids that the descriptor declares.
DeclaredIds ==
  { raw.variants[i].id : i \in DOMAIN raw.variants }

OverridesUndeclared(icon) ==
  \E id \in DOMAIN icon.overrides : id \notin DeclaredIds

AvailabilityUndeclared(icon) ==
  icon.availability.some
  /\ \E i \in DOMAIN icon.availability.v : icon.availability.v[i] \notin DeclaredIds

\* The variants of the descriptor pass the checks of the variant loop.
SoundVariants ==
  ~SameIdTwice /\ ~SameKeyTwice /\ ~BlankFeatureDeclared

\* The first icon of the descriptor is reached by the icon loop and its name
\* is accepted.
FirstIconChecked ==
  /\ NormalizeReturned
  /\ SoundVariants
  /\ raw.icons # <<>>
  /\ normalize_icon_name(raw.icons[1].name).ok

\* C13: normalize_pack rejects every pack with an icon whose overrides or
\* explicit availability name a variant id the pack does not declare (the
\* error for the first icon is OverrideUnknownVariant, else
\* AvailabilityUnknownVariant); in every accepted pack all override keys and
\* availability entries are declared variant ids, and every key of an icon's
\* codepoints is the key of a declared variant.
UndeclaredVariantRejected ==
  NormalizeReturned =>
    /\ (\E i \in DOMAIN raw.icons :
          OverridesUndeclared(raw.icons[i]) \/ AvailabilityUndeclared(raw.icons[i])) =>
         ~normalized_pack.ok
    /\ (FirstIconChecked /\ OverridesUndeclared(raw.icons[1])) =>
         normalized_pack.err = "OverrideUnknownVariant"
    /\ (FirstIconChecked /\ ~OverridesUndeclared(raw.icons[1])
           /\ AvailabilityUndeclared(raw.icons[1])) =>
         normalized_pack.err = "AvailabilityUnknownVariant"
    /\ normalized_pack.ok =>
         /\ \A i \in DOMAIN raw.icons :
              /\ DOMAIN raw.icons[i].overrides \subseteq DeclaredIds
              /\ raw.icons[i].availability.some =>
                   Range(raw.icons[i].availability.v) \subseteq DeclaredIds
         /\ \A i \in DOMAIN normalized_pack.v.icons :
              \A c \in DOMAIN normalized_pack.v.icons[i].codepoints :
                \E v \in DOMAIN raw.variants :
                  KeyOf(raw.variants[v]) = normalized_pack.v.icons[i].codepoints[c].key

\* An icon with a default codepoint and an override for a variant the pack
\* does not declare was rejected.
UndeclaredOverrideRejected ==
  /\ FirstIconChecked
  /\ raw.icons[1].codepoint.some
  /\ ~raw.icons[1].availability.some
  /\ OverridesUndeclared(raw.icons[1])
  /\ normalized_pack = Err("OverrideUnknownVariant")

\* The variant ids an icon without explicit availability is available in.
DerivedIds(icon) ==
  IF icon.codepoint.some THEN DeclaredIds ELSE DOMAIN icon.overrides

\* The (key, codepoint) pairs an icon has for the declared variants with an
\* id in ids, in any order.
ExpectedCodepoints(icon, ids) ==
  { [key |-> KeyOf(raw.variants[v]),
     codepoint |-> IF raw.variants[v].id \in DOMAIN icon.overrides
                   THEN icon.overrides[raw.variants[v].id]
                   ELSE icon.codepoint.v] :
      v \in { w \in DOMAIN raw.variants : raw.variants[w].id \in ids } }

\* The descriptor declares a variant and has one icon, which the icon loop
\* reaches, without explicit availability and with declared override keys
\* only.
OneIconOmittingAvailability ==
  /\ FirstIconChecked
  /\ raw.variants # <<>>
  /\ Len(raw.icons) = 1
  /\ ~raw.icons[1].availability.some
  /\ ~OverridesUndeclared(raw.icons[1])

\* C14: an icon that omits availability gets codepoints for all declared
\* variants if it has a default codepoint, otherwise for exactly the variants
\* of its override keys if it has overrides, and otherwise is rejected with
\* NoCodepointOrOverrides.
OmittedAvailabilityDerived ==
  NormalizeReturned =>
    /\ normalized_pack.ok =>
         \A i \in DOMAIN raw.icons :
           ~raw.icons[i].availability.some =>
             \E n \in DOMAIN normalized_pack.v.icons :
               /\ normalized_pack.v.icons[n].name = raw.icons[i].name
               /\ Range(normalized_pack.v.icons[n].codepoints)
                    = ExpectedCodepoints(raw.icons[i], DerivedIds(raw.icons[i]))
    /\ OneIconOmittingAvailability =>
         IF raw.icons[1].codepoint.some \/ DOMAIN raw.icons[1].overrides # {}
         THEN normalized_pack.ok
         ELSE normalized_pack.err = "NoCodepointOrOverrides"

\* An icon with a default codepoint, an override and no availability was
\* accepted in a pack of two variants: it has a codepoint for both.
OmittedAvailabilityCoversAllVariants ==
  /\ OneIconOmittingAvailability
  /\ Len(raw.variants) = 2
  /\ raw.icons[1].codepoint.some
  /\ DOMAIN raw.icons[1].overrides # {}
  /\ normalized_pack.ok
  /\ Len(normalized_pack.v.icons[1].codepoints) = 2

SameNameTwice ==
  \E i, j \in DOMAIN raw.icons : i < j /\ raw.icons[i].name = raw.icons[j].name

\* Two icons with different names get the same identifier.
IdentSharedByTwoNames ==
  \E i, j \in DOMAIN raw.icons :
    /\ i < j
    /\ raw.icons[i].name # raw.icons[j].name
    /\ normalize_icon_name(raw.icons[i].name).ok
    /\ normalize_icon_name(raw.icons[i].name) = normalize_icon_name(raw.icons[j].name)

\* Names and identifiers are the only possible flaw of the descriptor: its
\* variants are sound, and every icon has a name the identifier generator
\* accepts, a default codepoint, no overrides and no explicit availability.
OnlyNamesCanClash ==
  /\ SoundVariants
  /\ raw.variants # <<>>
  /\ \A i \in DOMAIN raw.icons :
       /\ normalize_icon_name(raw.icons[i].name).ok
       /\ raw.icons[i].codepoint.some
       /\ DOMAIN raw.icons[i].overrides = {}
       /\ ~raw.icons[i].availability.some

\* C15: normalize_pack rejects every pack with two icons of the same name or
\* with two icons of different names and equal identifiers; when nothing else
\* is wrong with the pack the error is DuplicateIconName if only names repeat,
\* IdentifierCollision if only identifiers do, and one of the two if both do;
\* in every accepted pack icon names are pairwise distinct and so are icon
\* identifiers.
ClashingIconsRejected ==
  NormalizeReturned =>
    /\ (SameNameTwice \/ IdentSharedByTwoNames) => ~normalized_pack.ok
    /\ (OnlyNamesCanClash /\ SameNameTwice /\ ~IdentSharedByTwoNames) =>
         normalized_pack.err = "DuplicateIconName"
    /\ (OnlyNamesCanClash /\ IdentSharedByTwoNames /\ ~SameNameTwice) =>
         normalized_pack.err = "IdentifierCollision"
    /\ (OnlyNamesCanClash /\ (SameNameTwice \/ IdentSharedByTwoNames)) =>
         normalized_pack.err \in {"DuplicateIconName", "IdentifierCollision"}
    /\ normalized_pack.ok =>
         \A i, j \in DOMAIN normalized_pack.v.icons :
           i # j => /\ normalized_pack.v.icons[i].name # normalized_pack.v.icons[j].name
                    /\ normalized_pack.v.icons[i].ident # normalized_pack.v.icons[j].ident

\* Two icons with different names and one identifier were rejected for the
\* collision.
IdentifierCollisionRejected ==
  /\ NormalizeReturned
  /\ OnlyNamesCanClash
  /\ IdentSharedByTwoNames
  /\ ~SameNameTwice
  /\ normalized_pack = Err("IdentifierCollision")

\* ident is pascal with the marker Icon in front when pascal starts with a
\* digit and the suffix _ when pascal is a keyword.
MarkedAndEscaped(pascal, ident) ==
  IF is_ascii_digit(Head(pascal)) THEN ident = <<"I", "c", "o", "n">> \o pascal
  ELSE IF str_to_ascii_lowercase(pascal) \in RustKeywords THEN ident = Append(pascal, "_")
  ELSE ident = pascal

\* What the claim says of the identifier ident generated for name.
IdentifierSound(name, ident) ==
  /\ ident # <<>>
  /\ ~is_ascii_digit(Head(ident))
  /\ ident \notin RustKeywords
  /\ str_to_ascii_lowercase(ident) \notin RustKeywords
  /\ MarkedAndEscaped(to_pascal_case(name).v, ident)
  /\ name = <<"a", "r", "r", "o", "w", "-", "l", "e", "f", "t">> =>
       ident = <<"A", "r", "r", "o", "w", "L", "e", "f", "t">>
  /\ name = <<"0", "-", "c", "i", "r", "c", "l", "e">> =>
       ident = <<"I", "c", "o", "n", "0", "C", "i", "r", "c", "l", "e">>
  /\ name = <<"t", "y", "p", "e">> => ident = <<"T", "y", "p", "e", "_">>

\* C16: every identifier the generator returns does not start with a digit
\* and is not a reserved keyword; it is the Pascal-case name with Icon in
\* front when that starts with a digit and with _ appended when that is a
\* keyword (arrow-left gives ArrowLeft, 0-circle gives Icon0Circle, type
\* gives Type_).
IdentifiersSound ==
  (NormalizeReturned /\ normalized_pack.ok) =>
    \A i \in DOMAIN normalized_pack.v.icons :
      IdentifierSound(normalized_pack.v.icons[i].name, normalized_pack.v.icons[i].ident)

\* A pack with the icons 0-circle and type was accepted.
DigitAndKeywordNamesAccepted ==
  /\ NormalizeReturned
  /\ normalized_pack.ok
  /\ Len(normalized_pack.v.icons) = 2
  /\ normalized_pack.v.icons[1].ident = <<"I", "c", "o", "n", "0", "C", "i", "r", "c", "l", "e">>
  /\ normalized_pack.v.icons[2].ident = <<"T", "y", "p", "e", "_">>

(***************************************************************************)
(* Claims about the font asset deduplicator (NormalizeSpec)                *)
(***************************************************************************)
\* collect_font_assets has returned for the normalized pack.
CollectReturned ==
  stage \in {"collected", "conflict", "rendered", "unrendered"}

\* The asset paths of the pack's variants
BackingPaths ==
  { AssetPathOf(normalized_pack.v.variants[i]) : i \in DOMAIN normalized_pack.v.variants }

\* The variants of the group of path
GroupOf(path) ==
  { v \in Range(normalized_pack.v.variants) : AssetPathOf(v) = path }

FamilyConflict ==
  \E path \in BackingPaths : \E v, w \in GroupOf(path) : v.family # w.family

\* C17: collect_font_assets fails with ConflictingFamily when two variants
\* with the same asset path declare different families, and otherwise
\* returns exactly one asset per distinct asset path of the variants, in
\* ascending order of the path, with the family of the path's variants.
OneAssetPerPath ==
  CollectReturned =>
    /\ FamilyConflict => font_assets = Err("ConflictingFamily")
    /\ ~FamilyConflict =>
         /\ font_assets.ok
         /\ Len(font_assets.v.assets) = Cardinality(BackingPaths)
         /\ { font_assets.v.assets[i].ttf_asset_path : i \in DOMAIN font_assets.v.assets }
              = BackingPaths
         /\ \A i, j \in DOMAIN font_assets.v.assets :
              i < j => StrLess(font_assets.v.assets[i].ttf_asset_path,
                               font_assets.v.assets[j].ttf_asset_path)
         /\ \A i \in DOMAIN font_assets.v.assets :
              \A v \in GroupOf(font_assets.v.assets[i].ttf_asset_path) :
                v.family = font_assets.v.assets[i].family

\* Two variants that name one font file, one with a backslash, collapsed into
\* one asset.
SharedFontCollapsed ==
  /\ stage = "collected"
  /\ Len(normalized_pack.v.variants) = 2
  /\ normalized_pack.v.variants[1].ttf_asset_path # normalized_pack.v.variants[2].ttf_asset_path
  /\ Len(font_assets.v.assets) = 1

\* C18: the feature gate of an asset is the feature value of the variants of
\* its group when they all carry the same value (no feature included), and
\* no gate when they carry two or more different values.
AssetGateIsSharedFeature ==
  stage = "collected" =>
    \A i \in DOMAIN font_assets.v.assets :
      /\ GroupOf(font_assets.v.assets[i].ttf_asset_path) # {}
      /\ \A v \in GroupOf(font_assets.v.assets[i].ttf_asset_path) :
           \/ v.feature = font_assets.v.assets[i].feature
           \/ /\ font_assets.v.assets[i].feature = None
              /\ \E w \in GroupOf(font_assets.v.assets[i].ttf_asset_path) :
                   w.feature # v.feature

\* Two variants behind different features share a font file, and its asset
\* has no gate.
MixedGroupUngated ==
  /\ stage = "collected"
  /\ Len(font_assets.v.assets) = 1
  /\ font_assets.v.assets[1].feature = None
  /\ Len(normalized_pack.v.variants) = 2
  /\ normalized_pack.v.variants[1].feature.some
  /\ normalized_pack.v.variants[2].feature.some
  /\ normalized_pack.v.variants[1].feature # normalized_pack.v.variants[2].feature

(***************************************************************************)
(* Claims about explicit availability lists (NormalizeSpec)                *)
(***************************************************************************)
EmptyAvailabilityListed(icon) ==
  icon.availability.some /\ icon.availability.v = <<>>

\* C19: normalize_pack rejects every pack with an icon whose explicit
\* availability list is empty; for the first icon the error is
\* EmptyAvailability when the icon has no overrides, and the error of the
\* override checks, which come first, when it has: OverrideUnknownVariant
\* for an undeclared key, else OverrideNotInAvailability.
EmptyAvailabilityRejected ==
  NormalizeReturned =>
    /\ (\E i \in DOMAIN raw.icons : EmptyAvailabilityListed(raw.icons[i])) =>
         ~normalized_pack.ok
    /\ (FirstIconChecked /\ EmptyAvailabilityListed(raw.icons[1])) =>
         normalized_pack.err =
           IF OverridesUndeclared(raw.icons[1]) THEN "OverrideUnknownVariant"
           ELSE IF DOMAIN raw.icons[1].overrides # {} THEN "OverrideNotInAvailability"
           ELSE "EmptyAvailability"

\* An icon with a default codepoint, no overrides and an empty availability
\* list was rejected for the empty list.
EmptyListWithoutOverridesRejected ==
  /\ FirstIconChecked
  /\ EmptyAvailabilityListed(raw.icons[1])
  /\ raw.icons[1].codepoint.some
  /\ DOMAIN raw.icons[1].overrides = {}
  /\ normalized_pack = Err("EmptyAvailability")

\* C19 as stated: the error for an icon with an empty explicit availability
\* list is EmptyAvailability.
EmptyAvailabilityAlwaysReported ==
  (FirstIconChecked /\ EmptyAvailabilityListed(raw.icons[1])) =>
    normalized_pack = Err("EmptyAvailability")

RepeatedEntry(icon) ==
  \E i, j \in DOMAIN icon.availability.v :
    i < j /\ icon.availability.v[i] = icon.availability.v[j]

OverrideNotListed(icon) ==
  \E id \in DOMAIN icon.overrides : id \notin Range(icon.availability.v)

\* The first icon is reached, has an explicit availability list, and names
\* declared variants only.
FirstIconListsDeclaredIds ==
  /\ FirstIconChecked
  /\ raw.icons[1].availability.some
  /\ ~OverridesUndeclared(raw.icons[1])
  /\ ~AvailabilityUndeclared(raw.icons[1])

\* C20: in every accepted pack an explicit availability list has no repeated
\* entry and contains every key of the icon's overrides; an icon with an
\* override key missing from the list is rejected with
\* OverrideNotInAvailability, and one with all override keys listed and a
\* repeated entry with DuplicateAvailabilityEntry.
ExplicitAvailabilityChecked ==
  NormalizeReturned =>
    /\ normalized_pack.ok =>
         \A i \in DOMAIN raw.icons :
           raw.icons[i].availability.some =>
             ~RepeatedEntry(raw.icons[i]) /\ ~OverrideNotListed(raw.icons[i])
    /\ (FirstIconListsDeclaredIds /\ OverrideNotListed(raw.icons[1])) =>
         normalized_pack.err = "OverrideNotInAvailability"
    /\ (FirstIconListsDeclaredIds /\ ~OverrideNotListed(raw.icons[1])
           /\ RepeatedEntry(raw.icons[1])) =>
         normalized_pack.err = "DuplicateAvailabilityEntry"

\* An icon whose availability list names one variant twice and covers its
\* override was rejected for the repeated entry.
RepeatedEntryRejected ==
  /\ FirstIconListsDeclaredIds
  /\ RepeatedEntry(raw.icons[1])
  /\ DOMAIN raw.icons[1].overrides # {}
  /\ ~OverrideNotListed(raw.icons[1])
  /\ normalized_pack = Err("DuplicateAvailabilityEntry")

(***************************************************************************)
(* Claims about the resolved codepoints (NormalizeSpec)                    *)
(***************************************************************************)
\* C21: normalize_pack fails with NoAvailableVariants only for a pack that
\* declares no variant (an icon with a default codepoint and no explicit
\* availability is then available in no variant); for every pack with at
\* least one variant the check is never triggered, and every icon of an
\* accepted pack has at least one (key, codepoint) pair.
NoAvailableVariantsOnlyWithoutVariants ==
  NormalizeReturned =>
    /\ normalized_pack.err = "NoAvailableVariants" => raw.variants = <<>>
    /\ (/\ FirstIconChecked
        /\ raw.variants = <<>>
        /\ raw.icons[1].codepoint.some
        /\ DOMAIN raw.icons[1].overrides = {}
        /\ ~raw.icons[1].availability.some) =>
         normalized_pack.err = "NoAvailableVariants"
    /\ normalized_pack.ok =>
         \A i \in DOMAIN normalized_pack.v.icons :
           normalized_pack.v.icons[i].codepoints # <<>>

\* An icon without default codepoint, available by its override in one of
\* the two declared variants, was accepted with one pair.
OverrideOnlyIconResolved ==
  /\ FirstIconChecked
  /\ Len(raw.variants) = 2
  /\ ~raw.icons[1].codepoint.some
  /\ normalized_pack.ok
  /\ Len(normalized_pack.v.icons[1].codepoints) = 1

\* C21 as stated: the NoAvailableVariants check is never triggered.
NoAvailableVariantsNeverTriggered ==
  NormalizeReturned => normalized_pack.err # "NoAvailableVariants"

(***************************************************************************)
(* Claims about Pascal case (NormalizeSpec)                                *)
(***************************************************************************)
\* segment with its first alphabetic character, wherever it is, upper-cased
RECURSIVE FirstAlphabeticUppercased(_)
FirstAlphabeticUppercased(segment) ==
  IF segment = <<>> THEN <<>>
  ELSE IF is_ascii_alphabetic(Head(segment))
  THEN <<to_ascii_uppercase(Head(segment))>> \o Tail(segment)
  ELSE <<Head(segment)>> \o FirstAlphabeticUppercased(Tail(segment))

RECURSIVE SegmentsUppercased(_)
SegmentsUppercased(parts) ==
  IF parts = <<>> THEN <<>>
  ELSE FirstAlphabeticUppercased(Head(parts)) \o SegmentsUppercased(Tail(parts))

\* C22 as stated: the identifier of every accepted icon is built from the
\* segments of its name between '-', each with its first alphabetic character
\* upper-cased and every other character unchanged (then marked and escaped).
FirstAlphabeticOfSegmentUppercased ==
  (NormalizeReturned /\ normalized_pack.ok) =>
    \A i \in DOMAIN normalized_pack.v.icons :
      normalized_pack.v.icons[i].ident =
        EscapeKeyword(MarkLeadingDigit(
          SegmentsUppercased(split(normalized_pack.v.icons[i].name, "-"))))

EarlierArtifactsStayWritten ==
  (~check /\ pc = "done" /\ status.kind # "Ok") =>
    \A i \in 1..written : InSync(i)

\* C25: nothing is written or compared before every artifact of the run is
\* rendered and formatted; a run that ends with a rendering or a formatter
\* error, in write mode or in check mode, leaves every file and the
\* generated directory as they were and never calls fs::write.
RenderedBeforeFirstWrite ==
  /\ (pc # "idle" /\ ~Rendered) =>
       /\ pc # "write"
       /\ written = 0
       /\ files = files0
       /\ dir_exists = dir_exists0
       /\ fs_writes = <<>>
  /\ (pc = "done" /\ status.kind \in {"RenderError", "FormatterError"}) =>
       /\ ~Rendered
       /\ files = files0
       /\ dir_exists = dir_exists0

\* A write-mode run over stale artifacts ended with a formatter failure on a
\* pack module, after the index was rendered.
FormatterFailedOnPackModule ==
  /\ ~check
  /\ pc = "done"
  /\ status.kind = "FormatterError"
  /\ status.path # ModPath
  /\ Len(outputs) >= 1
  /\ files[ModPath] = FileWith(StaleText)
  /\ files = files0

\* The run before the current one was a write-mode run that returned Ok.
AfterSuccessfulWrite ==
  prev_run = [check |-> FALSE, kind |-> "Ok"]

\* C26 as stated: a check-mode run that follows a successful write-mode run
\* over the same descriptor files reports neither drift nor a missing
\* artifact.
CheckAfterWriteSucceeds ==
  (check /\ pc = "done" /\ AfterSuccessfulWrite) =>
    status.kind \notin {"DriftDetected", "MissingArtifact"}

\* C27 as stated: the paths of the outputs of a run are pairwise distinct,
\* and no path is written twice in a run.
ArtifactPathsDistinct ==
  /\ \A i, j \in DOMAIN outputs : i # j => outputs[i].path # outputs[j].path
  /\ \A i, j \in DOMAIN fs_writes : i # j => fs_writes[i] # fs_writes[j]

(***************************************************************************)
(* Claims about the names of the emitted constants (NormalizeSpec)         *)
(***************************************************************************)
\* C28 as stated: in every accepted pack the names of the per-icon tables,
\* ICON_<X>_CODEPOINTS and ICON_<X>_AVAILABLE, differ from icon to icon.
IconConstNamesDistinct ==
  (NormalizeReturned /\ normalized_pack.ok) =>
    \A i, j \in DOMAIN normalized_pack.v.icons :
      i # j =>
        /\ icon_codepoints_const_ident(normalized_pack.v.icons[i].ident)
             # icon_codepoints_const_ident(normalized_pack.v.icons[j].ident)
        /\ icon_available_const_ident(normalized_pack.v.icons[i].ident)
             # icon_available_const_ident(normalized_pack.v.icons[j].ident)

\* C29 as stated: the identifiers of the font assets of a pack are pairwise
\* distinct.
AssetIdentifiersDistinct ==
  stage = "collected" =>
    \A i, j \in DOMAIN font_assets.v.assets :
      i # j => font_assets.v.assets[i].const_ident # font_assets.v.assets[j].const_ident

(***************************************************************************)
(* Claims about feature gating (NormalizeSpec)                             *)
(***************************************************************************)
\* The font const called name is kept by the build and listed by fonts().
KeptAndListed(index, pack_module, features, name) ==
  /\ \E c \in Range(Built(pack_module.font_consts, features)) : c.name = name
  /\ \E f \in Range(Built(index.fonts, features)) :
       f.pack = pack_module.PACK_ID /\ f.asset = name

\* The family of a resolved lookup is the family of a font const that the
\* build keeps and fonts() lists.
FamilyListed(index, pack_module, features, result) ==
  result.kind = "Ok" =>
    \E c \in Range(Built(pack_module.font_consts, features)) :
      /\ c.family = result.family
      /\ KeptAndListed(index, pack_module, features, c.name)

\* In the build of the pack with the given features enabled, every kept
\* VARIANT_ASSETS entry names a font const that is kept and listed by
\* fonts(), and so does the family of every icon try_icon resolves.
GatesConsistent(index, pack_module, features) ==
  /\ \A e \in Range(Built(pack_module.VARIANT_ASSETS, features)) :
       KeptAndListed(index, pack_module, features, e.asset)
  /\ \A v \in Range(pack_module.VARIANTS) :
       \A i \in DOMAIN pack_module.ICON_NAMES :
         FamilyListed(index, pack_module, features,
                      try_icon(pack_module, features, pack_module.ICON_NAMES[i],
                               v.key.style, v.key.size))

\* C30: for every set of enabled features under which the font consts of the
\* pack module have distinct names, a variant whose own gate is open has its
\* font asset included: no kept VARIANT_ASSETS entry names an asset that is
\* gated off or missing from fonts(), and every family try_icon returns is
\* that of an asset fonts() lists.
FeatureGatingConsistent ==
  stage = "rendered" =>
    \A features \in SUBSET {FeatureX, FeatureY} :
      NoDuplicates(NamesOf(Built(outputs[2].content.formatted.font_consts, features))) =>
        GatesConsistent(outputs[1].content.formatted, outputs[2].content.formatted, features)

\* The artifacts of a pack were rendered in which a variant behind a feature
\* and a variant without feature share one font file; with no feature
\* enabled the icon resolves in the second variant.
MixedGroupResolvesUngated ==
  /\ stage = "rendered"
  /\ Len(normalized_pack.v.variants) = 2
  /\ normalized_pack.v.variants[1].ttf_asset_path = normalized_pack.v.variants[2].ttf_asset_path
  /\ normalized_pack.v.variants[1].feature = Some(FeatureX)
  /\ normalized_pack.v.variants[2].feature = None
  /\ try_icon(outputs[2].content.formatted, {}, <<"t">>,
              normalized_pack.v.variants[2].key.style,
              normalized_pack.v.variants[2].key.size).kind = "Ok"

====
